---- MODULE Spec2Model ----
(***************************************************************************)
(* rschedule: occurrence generators (Dates, Rule, ScheduleBase) and the    *)
(* stream operators (add, subtract, intersection, unique) as pull-based    *)
(* generators.  A generator is a record holding its suspended position;    *)
(* `next(yieldArgs)` is an operator from that record to the record after   *)
(* the body has run to its next `yield` (or to its end).                   *)
(***************************************************************************)
EXTENDS Integers, Sequences, FiniteSets, TLC

\* ------------------------------------------------------------------ bounds
MaxT == 3
MaxLen == 3
MaxOpLen == 3
MaxTake == 2
MaxPulls == 4

\* intersection({ maxFailedIterations: 50, ... })
MaxFailedIterations == 50

\* ------------------------------------------------------------- DateTime
\* `undefined` where a DateTime (or a generator's value) is optional
None == [undefined |-> TRUE]

\* `undefined` for the optional number IRunArgs.take
TakeUndefined == -1

Timestamps == 1..MaxT

InvalidDateTimeError == "InvalidDateTimeError"

\* Number.NaN, the timestamp of an invalid Date
NaN == "NaN"

\* new DateTime(date, timezone, duration, generators).  `date` is the UTC
\* timestamp, counted in hours from 2019-01-01T00:00Z (in milliseconds where
\* durations are merged and split, and in the by-millisecond stage).  A
\* negative duration and an invalid date are refused.  `timezone || null`:
\* the empty label is null, which is written "null".
NewDateTime(date, timezone, duration, generators) ==
  IF duration < 0 THEN InvalidDateTimeError
  ELSE IF ToString(date) = ToString(NaN) THEN InvalidDateTimeError
  ELSE [t |-> date, timezone |-> IF timezone = "" THEN "null" ELSE timezone,
        duration |-> duration, generators |-> generators]

\* the constructor threw instead of giving a DateTime
IsInvalidDateTimeError(made) == ToString(made) = ToString(InvalidDateTimeError)

\* every generator of one traversal holds dates already normalized to its own
\* timezone
DateTime(t) == NewDateTime(t, "UTC", 0, <<>>)

DateTimes == {DateTime(t) : t \in Timestamps}

valueOf(d) == d.t

\* treats the label null as UTC instead of refusing the comparison
MutAssertSameTimeZoneCoerced(x, y) ==
  LET label(d) == IF d.timezone = "null" THEN "UTC" ELSE d.timezone
  IN  label(x) = label(y)

assertSameTimeZone(x, y) == x.timezone = y.timezone

\* isEqual comparing the two objects instead of their timestamps
MutIsEqualIdentity(a, b) ==
  IF b = None THEN FALSE
  ELSE IF assertSameTimeZone(a, b) THEN FALSE ELSE InvalidDateTimeError

\* isEqual with `>=` in place of `===`
MutIsEqualAtLeast(a, b) ==
  IF b = None THEN FALSE
  ELSE IF assertSameTimeZone(a, b) THEN valueOf(a) >= valueOf(b) ELSE InvalidDateTimeError

isEqual(a, b) ==
  IF b = None THEN FALSE
  ELSE IF assertSameTimeZone(a, b) THEN valueOf(a) = valueOf(b) ELSE InvalidDateTimeError

isBefore(a, b) ==
  IF assertSameTimeZone(a, b) THEN valueOf(a) < valueOf(b) ELSE InvalidDateTimeError

isBeforeOrEqual(a, b) ==
  IF assertSameTimeZone(a, b) THEN valueOf(a) <= valueOf(b) ELSE InvalidDateTimeError

isAfter(a, b) ==
  IF assertSameTimeZone(a, b) THEN valueOf(a) > valueOf(b) ELSE InvalidDateTimeError

isAfterOrEqual(a, b) ==
  IF assertSameTimeZone(a, b) THEN valueOf(a) >= valueOf(b) ELSE InvalidDateTimeError

dateTimeSortComparer(a, b) ==
  IF isAfter(a, b) THEN 1
  ELSE IF isBefore(a, b) THEN -1
  ELSE IF a.duration # 0 /\ b.duration # 0
       THEN IF a.duration > b.duration THEN 1
            ELSE IF a.duration < b.duration THEN -1 ELSE 0
       ELSE 0

\* ------------------------------------------------------ calendar fields
\* the year of timestamp 0
EpochYear == 2019

\* DateAdapter.MILLISECONDS_IN_DAY / DateAdapter.MILLISECONDS_IN_HOUR
HoursInDay == 24

isLeapYear(year) == year % 400 = 0 \/ (year % 4 = 0 /\ year % 100 # 0)

getDaysInFebruary(year) == IF isLeapYear(year) THEN 29 ELSE 28

\* month is base-1; a month outside 1..12 has no entry in the table
monthLength(month, year) ==
  CASE month = 2 -> getDaysInFebruary(year)
    [] month \in {4, 6, 9, 11} -> 30
    [] month \in {1, 3, 5, 7, 8, 10, 12} -> 31
    [] OTHER -> None

getDaysInYear(year) == IF isLeapYear(year) THEN 366 ELSE 365

\* the days from the start of EpochYear to the start of `year`: 365 a year,
\* and one more for each leap year passed
DaysBeforeYear(year) ==
  LET leapYearsBefore(y) == ((y - 1) \div 4) - ((y - 1) \div 100) + ((y - 1) \div 400)
  IN  CHOOSE days \in {365 * (y - EpochYear) + leapYearsBefore(y) - leapYearsBefore(EpochYear) :
                         y \in {year}} : TRUE

RECURSIVE DaysBeforeMonth(_, _)
DaysBeforeMonth(year, month) ==
  IF month = 1 THEN 0 ELSE DaysBeforeMonth(year, month - 1) + monthLength(month - 1, year)

\* Date.UTC(year, month - 1, day, hour): a month outside 1..12 and a day
\* outside the month carry over, as the Date object does
DateUTC(year, month, day, hour) ==
  LET y == year + ((month - 1) \div 12)
      m == ((month - 1) % 12) + 1
  IN  (DaysBeforeYear(y) + DaysBeforeMonth(y, m) + day - 1) * HoursInDay + hour

RECURSIVE YearOfDay(_, _)
\* the year holding the day counted from the start of `year`, with the day's
\* place in it.  A day far from `year` is first brought near by day \div 366
\* whole years (no year has more than 366 days): 365 days a year, and one
\* more for each leap year passed.
YearOfDay(day, year) ==
  IF day < 0 - 366 \/ day > 2 * 366
  THEN YearOfDay(day - (365 * (day \div 366)
                        + (((year + (day \div 366) - 1) \div 4) - ((year - 1) \div 4))
                        - (((year + (day \div 366) - 1) \div 100) - ((year - 1) \div 100))
                        + (((year + (day \div 366) - 1) \div 400) - ((year - 1) \div 400))),
                 year + (day \div 366))
  ELSE IF day < 0 THEN YearOfDay(day + getDaysInYear(year - 1), year - 1)
  ELSE IF day >= getDaysInYear(year) THEN YearOfDay(day - getDaysInYear(year), year + 1)
  ELSE [year |-> year, day |-> day]

RECURSIVE MonthOfDay(_, _, _)
MonthOfDay(dayOfYear, year, month) ==
  IF dayOfYear < monthLength(month, year) THEN [month |-> month, day |-> dayOfYear + 1]
  ELSE MonthOfDay(dayOfYear - monthLength(month, year), year, month + 1)

\* DateAdapter.WEEKDAYS
WEEKDAYS == <<"SU", "MO", "TU", "WE", "TH", "FR", "SA">>

\* DateTime.get(unit): getUTCFullYear, getUTCMonth() + 1, getUTCDate,
\* getUTCHours, WEEKDAYS[getUTCDay()] (timestamp 0 is a Tuesday)
get(this, unit) ==
  IF unit = "hour" THEN this.t % HoursInDay
  ELSE IF unit = "weekday" THEN WEEKDAYS[(((this.t \div HoursInDay) + 2) % 7) + 1]
  ELSE CHOOSE field \in
         {IF unit = "year" THEN y.year
          ELSE CHOOSE ofMonth \in {IF unit = "month" THEN m.month ELSE m.day :
                                     m \in {MonthOfDay(y.day, y.year, 1)}} : TRUE :
            y \in {YearOfDay(this.t \div HoursInDay, EpochYear)}} : TRUE

\* forkDateTime(date): new DateTime(date, this.timezone, this.duration)
forkDateTime(this, date) == NewDateTime(date, this.timezone, this.duration, <<>>)

\* addUTCMonths(date, amount): the day is cut to the length of the month
\* arrived at
addUTCMonths(this, amount) ==
  LET desiredMonth == get(this, "month") + amount
      first        == forkDateTime(this, DateUTC(get(this, "year"), desiredMonth, 1, 0))
      daysInMonth  == monthLength(get(first, "month"), get(first, "year"))
      day          == IF daysInMonth < get(this, "day") THEN daysInMonth ELSE get(this, "day")
  IN  DateUTC(get(this, "year"), desiredMonth, day, get(this, "hour"))

\* DateTime.add(amount, unit)
add(this, amount, unit) ==
  CASE unit = "generator" ->
         NewDateTime(this.t, this.timezone, this.duration, <<amount>> \o this.generators)
    [] unit = "year"  -> forkDateTime(this, addUTCMonths(this, amount * 12))
    [] unit = "month" -> forkDateTime(this, addUTCMonths(this, amount))
    [] unit = "week"  -> forkDateTime(this, this.t + amount * 7 * HoursInDay)
    [] unit = "day"   -> forkDateTime(this, this.t + amount * HoursInDay)
    [] unit = "hour"  -> forkDateTime(this, this.t + amount)

\* DateTime.subtract(amount, unit): subUTC...(date, amount) is addUTC...(date, -amount)
subtract(this, amount, unit) ==
  CASE unit = "year"  -> forkDateTime(this, addUTCMonths(this, (0 - amount) * 12))
    [] unit = "month" -> forkDateTime(this, addUTCMonths(this, 0 - amount))
    [] unit = "week"  -> forkDateTime(this, this.t + (0 - amount) * 7 * HoursInDay)
    [] unit = "day"   -> forkDateTime(this, this.t + (0 - amount) * HoursInDay)
    [] unit = "hour"  -> forkDateTime(this, this.t + (0 - amount))

\* set('month', value) by setUTCMonth(value - 1) alone, the day kept as it is
MutSetMonthUnclamped(this, unit, value) ==
  LET year  == get(this, "year")
      month == get(this, "month")
      day   == get(this, "day")
      hour  == get(this, "hour")
  IN  CASE unit = "duration" -> NewDateTime(this.t, this.timezone, value, <<>>)
        [] unit = "year"  -> forkDateTime(this, DateUTC(value, month, day, hour))
        [] unit = "month" -> forkDateTime(this, DateUTC(year, value, day, hour))
        [] unit = "day"   -> forkDateTime(this, DateUTC(year, month, value, hour))
        [] unit = "hour"  -> forkDateTime(this, DateUTC(year, month, day, value))

\* DateTime.set(unit, value)
set(this, unit, value) ==
  LET year  == get(this, "year")
      month == get(this, "month")
      day   == get(this, "day")
      hour  == get(this, "hour")
  IN  CASE unit = "duration" -> NewDateTime(this.t, this.timezone, value, <<>>)
        [] unit = "year"  -> forkDateTime(this, DateUTC(value, month, day, hour))
        [] unit = "month" ->
             \* `day > undefined` is false
             IF value \in 1..12 /\ day > monthLength(value, year)
             THEN forkDateTime(this, DateUTC(year, value + 1, 1, hour) - HoursInDay)
             ELSE forkDateTime(this, DateUTC(year, value, day, hour))
        [] unit = "day"   -> forkDateTime(this, DateUTC(year, month, value, hour))
        [] unit = "hour"  -> forkDateTime(this, DateUTC(year, month, day, value))

\* DateTime.granularity(granularity): the start of the unit
granularity(this, unit) ==
  LET forked  == forkDateTime(this, this.t)
      month1  == IF unit = "year" THEN set(forked, "month", 1) ELSE forked
      day1    == IF unit \in {"year", "month"} THEN set(month1, "day", 1) ELSE month1
  IN  IF unit \in {"year", "month", "day"} THEN set(day1, "hour", 0) ELSE day1

\* DateTime.endGranularity(granularity): the end of the unit
endGranularity(this, unit) ==
  LET forked  == forkDateTime(this, this.t)
      month12 == IF unit = "year" THEN set(forked, "month", 12) ELSE forked
      dayLast == IF unit \in {"year", "month"}
                 THEN set(month12, "day", monthLength(get(month12, "month"), get(month12, "year")))
                 ELSE month12
  IN  IF unit \in {"year", "month", "day"} THEN set(dayLast, "hour", 23) ELSE dayLast

\* ------------------------------------------------------- array helpers
RECURSIVE Reverse(_)
\* Array.prototype.reverse (on a copy)
Reverse(s) == IF s = <<>> THEN <<>> ELSE Reverse(Tail(s)) \o <<Head(s)>>

\* Array.prototype.slice(0, n)
Slice0(s, n) == SubSeq(s, 1, IF n < Len(s) THEN n ELSE Len(s))

RECURSIVE CountRun(_, _, _)
\* the length of the run the array starts with, `runLength` of its elements
\* being known to be in it: a run goes on while the next element is less
\* than the one before it (descending run), or is not (ascending run)
CountRun(s, isDescending, runLength) ==
  IF runLength >= Len(s) THEN runLength
  ELSE IF (dateTimeSortComparer(s[runLength + 1], s[runLength]) < 0) = isDescending
       THEN CountRun(s, isDescending, runLength + 1)
       ELSE runLength

RECURSIVE BinarySearch(_, _, _, _)
\* the place of `pivot` among the elements at indices left..right - 1
\* (base-0) of `s`: after every element it is not less than
BinarySearch(s, pivot, left, right) ==
  IF left >= right THEN left
  ELSE CHOOSE place \in
         {IF dateTimeSortComparer(pivot, s[mid + 1]) < 0
          THEN BinarySearch(s, pivot, left, mid)
          ELSE BinarySearch(s, pivot, mid + 1, right) :
            mid \in {left + ((right - left) \div 2)}} : TRUE

RECURSIVE BinaryInsertionSort(_, _)
\* the first `start` elements of `s` are in order; each later element is put
\* in its place among those before it
BinaryInsertionSort(s, start) ==
  IF start >= Len(s) THEN s
  ELSE CHOOSE sorted \in
         {BinaryInsertionSort(SubSeq(s, 1, left) \o <<s[start + 1]>>
                                \o SubSeq(s, left + 1, start)
                                \o SubSeq(s, start + 2, Len(s)), start + 1) :
            left \in {BinarySearch(s, s[start + 1], 0, start)}} : TRUE

\* datetimes.sort(dateTimeSortComparer), as the engine sorts a short array:
\* the run the array starts with is found, and turned round when it is
\* descending, and the elements after it are inserted by binary search.  The
\* outcome is the order by timestamp, then duration, when no date without a
\* duration shares its timestamp with dates of different durations.
SortDateTimes(s) ==
  IF Len(s) < 2 THEN s
  ELSE CHOOSE sorted \in
         {BinaryInsertionSort(
            IF dateTimeSortComparer(s[2], s[1]) < 0
            THEN Reverse(SubSeq(s, 1, runLength)) \o SubSeq(s, runLength + 1, Len(s))
            ELSE s,
            runLength) :
            runLength \in {CountRun(s, dateTimeSortComparer(s[2], s[1]) < 0, 2)}} : TRUE

\* datetimes.push(d) and datetimes.sort(dateTimeSortComparer)
InsertSorted(s, d) == SortDateTimes(Append(s, d))

\* ------------------------------------------------------------ run args
\* IRunArgs { start?, end?, take?, reverse? }
RunArgs(start, end, take, reverse) ==
  [start |-> start, end |-> end, take |-> take, reverse |-> reverse]

\* the argument of `generator.next(yieldArgs)`
YieldArgs(skipToDate) == [skipToDate |-> skipToDate]

NoYieldArgs == YieldArgs(None)

\* ------------------------------------------------- occurrence generators
\* normalizeRunOutput(date): a date of another timezone than the generator's
\* is handed out as the same instant in the generator's timezone, through the
\* date adapter; toDateTime() gives the new DateTime the generators of the
\* old one
normalizeRunOutput(this, date) ==
  IF date.timezone # this.timezone
  THEN NewDateTime(date.t, this.timezone, date.duration, date.generators)
  ELSE date

\* new Dates({ dates, timezone, duration }): every date is given the timezone
\* of the object, and the duration when it has none of its own; `datetimes`
\* is the private array that _run sorts.  `id` stands for the identity of
\* the object.
NewDates(id, dates, timezone, duration) ==
  LET adapters == [i \in 1..Len(dates) |->
                     NewDateTime(dates[i].t, timezone,
                                 IF duration # 0 /\ dates[i].duration = 0
                                 THEN duration ELSE dates[i].duration,
                                 <<>>)]
  IN  [class |-> "Dates", id |-> id, timezone |-> timezone,
       adapters |-> adapters, datetimes |-> adapters]

\* new Rule(options, { timezone })
NewRule(id, options, timezone) ==
  [class |-> "Rule", id |-> id, timezone |-> timezone, options |-> options]

\* ------------------------------------------------------------ Dates._run
\* Dates._run ignoring args.reverse
MutDatesListNoReverse(datetimes, args) ==
  LET sorted == SortDateTimes(datetimes)
      fromS  == IF args.start # None
                THEN SelectSeq(sorted, LAMBDA d : isAfterOrEqual(d, args.start))
                ELSE sorted
      toE    == IF args.end # None
                THEN SelectSeq(fromS, LAMBDA d : isBeforeOrEqual(d, args.end))
                ELSE fromS
  IN  IF args.take # TakeUndefined /\ args.take # 0 THEN Slice0(toE, args.take) ELSE toE

\* Dates._run filtering the end bound with isBefore
MutDatesListEndExclusive(datetimes, args) ==
  LET sorted   == SortDateTimes(datetimes)
      fromS    == IF args.start # None
                  THEN SelectSeq(sorted, LAMBDA d : isAfterOrEqual(d, args.start))
                  ELSE sorted
      toE      == IF args.end # None
                  THEN SelectSeq(fromS, LAMBDA d : isBefore(d, args.end))
                  ELSE fromS
      directed == IF args.reverse THEN Reverse(toE) ELSE toE
  IN  IF args.take # TakeUndefined /\ args.take # 0 THEN Slice0(directed, args.take) ELSE directed

\* Dates._run filtering the start bound with isAfter
MutDatesListStartExclusive(datetimes, args) ==
  LET sorted   == SortDateTimes(datetimes)
      fromS    == IF args.start # None
                  THEN SelectSeq(sorted, LAMBDA d : isAfter(d, args.start))
                  ELSE sorted
      toE      == IF args.end # None
                  THEN SelectSeq(fromS, LAMBDA d : isBeforeOrEqual(d, args.end))
                  ELSE fromS
      directed == IF args.reverse THEN Reverse(toE) ELSE toE
  IN  IF args.take # TakeUndefined /\ args.take # 0 THEN Slice0(directed, args.take) ELSE directed

\* The list the traversal walks: sorted, filtered by start/end, reversed,
\* cut by take.  `if (args.take)` is a truthiness test: 0 and undefined both
\* leave the list whole.
DatesList(datetimes, args) ==
  LET sorted   == SortDateTimes(datetimes)
      fromS    == IF args.start # None
                  THEN SelectSeq(sorted, LAMBDA d : isAfterOrEqual(d, args.start))
                  ELSE sorted
      toE      == IF args.end # None
                  THEN SelectSeq(fromS, LAMBDA d : isBeforeOrEqual(d, args.end))
                  ELSE fromS
      directed == IF args.reverse THEN Reverse(toE) ELSE toE
  IN  IF args.take # TakeUndefined /\ args.take # 0 THEN Slice0(directed, args.take) ELSE directed

\* A Dates generator object before its first next(); `this` is the Dates
\* object the generator belongs to.
DatesRun(this, args) ==
  [kind      |-> "dates",
   this      |-> [id |-> this.id, timezone |-> this.timezone],
   dates     |-> DatesList(this.datetimes, args),
   dateCache |-> <<>>,
   reverse   |-> args.reverse,
   pc        |-> "start",
   done      |-> FALSE,
   value     |-> None]

RECURSIVE MutDatesSkipLoopInverted(_, _, _)
\* the skip test with the two directions swapped
MutDatesSkipLoopInverted(cache, skipToDate, reverse) ==
  IF cache = <<>> THEN <<>>
  ELSE IF skipToDate # None
          /\ (IF reverse THEN isAfter(skipToDate, Head(cache))
                         ELSE isBefore(skipToDate, Head(cache)))
       THEN MutDatesSkipLoopInverted(Tail(cache), skipToDate, reverse)
       ELSE cache

RECURSIVE DatesSkipLoop(_, _, _)
\* the `continue` branch of the while loop: drop cached dates the skipToDate
\* is after (before, in reverse)
DatesSkipLoop(cache, skipToDate, reverse) ==
  IF cache = <<>> THEN <<>>
  ELSE IF skipToDate # None
          /\ (IF reverse THEN isBefore(skipToDate, Head(cache))
                         ELSE isAfter(skipToDate, Head(cache)))
       THEN DatesSkipLoop(Tail(cache), skipToDate, reverse)
       ELSE cache

\* next(yieldArgs) on any generator, by kind (defined after the operators)
RECURSIVE GenNext(_, _)

\* the loop without the reset of the date cache on a skipToDate
MutDatesShiftNoReset(g, yieldArgs) ==
  IF g.pc = "done" THEN g
  ELSE LET cache == IF g.pc = "start" THEN g.dates ELSE g.dateCache
           skip  == IF g.pc = "start" THEN None ELSE yieldArgs.skipToDate
           rest  == DatesSkipLoop(cache, skip, g.reverse)
       IN  IF rest = <<>>
           THEN [g EXCEPT !.pc = "done", !.done = TRUE, !.value = None, !.dateCache = <<>>]
           ELSE [g EXCEPT !.pc = "yield", !.value = Head(rest), !.dateCache = Tail(rest)]

\* The while loop from one yield to the `date` the next yield is about: the
\* date cache is reset on a skipToDate, and dates are shifted off it while
\* the skipToDate is beyond them.  `value` is that date as the list holds it.
DatesShift(g, yieldArgs) ==
  IF g.pc = "done" THEN g
  ELSE LET cache == IF g.pc = "start" THEN g.dates
                    ELSE IF yieldArgs.skipToDate # None THEN g.dates
                    ELSE g.dateCache
           skip  == IF g.pc = "start" THEN None ELSE yieldArgs.skipToDate
           rest  == DatesSkipLoop(cache, skip, g.reverse)
       IN  IF rest = <<>>
           THEN [g EXCEPT !.pc = "done", !.done = TRUE, !.value = None, !.dateCache = <<>>]
           ELSE [g EXCEPT !.pc = "yield", !.value = Head(rest), !.dateCache = Tail(rest)]

\* One next(yieldArgs) on a Dates generator:
\*   date = date.add(this, 'generator'); yield this.normalizeRunOutput(date)
DatesNext(g, yieldArgs) ==
  CHOOSE next \in
    {IF shifted.done THEN shifted
     ELSE [shifted EXCEPT !.value =
             normalizeRunOutput(g.this, add(shifted.value, g.this.id, "generator"))] :
       shifted \in {DatesShift(g, yieldArgs)}} : TRUE

\* ------------------------------------------------- operators/utilities
\* new IterableWrapper(generator): holds the generator with its pending
\* `done`/`value`; the constructor pulls the first value.
IterableWrapper(gen) == GenNext(gen, NoYieldArgs)

\* IterableWrapper.picked(): replace the pending value by the next one
picked(stream) == GenNext(stream, NoYieldArgs)

streamPastEnd(stream, args) ==
  \/ stream.done
  \/ IF args.reverse
     THEN args.start # None /\ isBefore(stream.value, args.start)
     ELSE args.end # None /\ isAfter(stream.value, args.end)

streamPastSkipToDate(stream, skipToDate, args) ==
  IF args.reverse
  THEN isBeforeOrEqual(stream.value, skipToDate)
  ELSE isAfterOrEqual(stream.value, skipToDate)

RECURSIVE StreamSkipLoop(_, _, _)
\* while (!streamPastEnd(..) && !streamPastSkipToDate(..)) stream.picked()
StreamSkipLoop(stream, skipToDate, args) ==
  IF ~streamPastEnd(stream, args) /\ ~streamPastSkipToDate(stream, skipToDate, args)
  THEN StreamSkipLoop(picked(stream), skipToDate, args)
  ELSE stream

\* ------------------------------------------------- UniqueOperator._run
\* unique()({ base }) before its first next(); base is None when absent
UniqueRun(baseGen, args) ==
  [kind   |-> "unique",
   stream |-> baseGen,
   args   |-> args,
   pc     |-> "start",
   done   |-> FALSE,
   value  |-> None]

\* unique without the loop over equal values
MutUniqueEqualLoopNone(stream, lastValue, args) == stream

\* unique with `if` in place of `while`: drops one equal value only
MutUniqueEqualLoopOnce(stream, lastValue, args) ==
  IF ~streamPastEnd(stream, args) /\ isEqual(stream.value, lastValue)
  THEN picked(stream)
  ELSE stream

RECURSIVE UniqueEqualLoop(_, _, _)
\* while (!streamPastEnd(stream, args) && stream.value.isEqual(lastValue))
\*   stream.picked()
UniqueEqualLoop(stream, lastValue, args) ==
  IF ~streamPastEnd(stream, args) /\ isEqual(stream.value, lastValue)
  THEN UniqueEqualLoop(picked(stream), lastValue, args)
  ELSE stream

\* the loop head `while (!stream.done)` followed by the yield
UniqueYield(g, stream) ==
  IF stream.done
  THEN [g EXCEPT !.stream = stream, !.pc = "done", !.done = TRUE, !.value = None]
  ELSE [g EXCEPT !.stream = stream, !.pc = "yield", !.value = stream.value]

UniqueNext(g, yieldArgs) ==
  IF g.pc = "done" THEN g
  ELSE IF g.pc = "start"
  THEN IF g.stream = None
       THEN [g EXCEPT !.pc = "done", !.done = TRUE]
       ELSE UniqueYield(g, IterableWrapper(g.stream))
  ELSE LET lastValue == g.stream.value
           s1 == picked(g.stream)
           s2 == IF yieldArgs.skipToDate # None
                 THEN StreamSkipLoop(s1, yieldArgs.skipToDate, g.args)
                 ELSE s1
           s3 == UniqueEqualLoop(s2, lastValue, g.args)
       IN  UniqueYield(g, s3)

\* ----------------------------------------------------- AddOperator._run
\* is `a` ahead of `b` in the traversal's direction
ComesFirst(a, b, args) == IF args.reverse THEN isAfter(a, b) ELSE isBefore(a, b)

\* selectNextIterable(streams, args): index of the first stream holding the
\* earliest pending value (latest in reverse); 0 when every stream is done
selectNextIterable(streams, args) ==
  LET live == {i \in 1..Len(streams) : ~streams[i].done}
  IN  IF live = {} THEN 0
      ELSE CHOOSE i \in live :
             \A j \in live \ {i} :
               IF j < i THEN ComesFirst(streams[i].value, streams[j].value, args)
               ELSE ~ComesFirst(streams[j].value, streams[i].value, args)

\* selectLastIterable picking the nearest pending value instead of the furthest
MutSelectLastIsNext(streams, args) ==
  LET live == {i \in 1..Len(streams) : ~streams[i].done}
  IN  IF live = {} THEN 0
      ELSE CHOOSE i \in live :
             \A j \in live \ {i} :
               IF j < i THEN ComesFirst(streams[i].value, streams[j].value, args)
               ELSE ~ComesFirst(streams[j].value, streams[i].value, args)

\* selectLastIterable(streams, args): index of the first stream holding the
\* latest pending value (earliest in reverse)
selectLastIterable(streams, args) ==
  LET live == {i \in 1..Len(streams) : ~streams[i].done}
  IN  IF live = {} THEN 0
      ELSE CHOOSE i \in live :
             \A j \in live \ {i} :
               IF j < i THEN ComesFirst(streams[j].value, streams[i].value, args)
               ELSE ~ComesFirst(streams[i].value, streams[j].value, args)

\* add(...streams)({ base }) before its first next(): the input streams,
\* then the base when there is one
AddRun(streamGens, args) ==
  [kind    |-> "add",
   streams |-> streamGens,
   cur     |-> 0,
   args    |-> args,
   pc      |-> "start",
   done    |-> FALSE,
   value   |-> None]

\* stream = selectNextIterable(streams, args); while (stream) yield stream.value
AddYield(g, streams) ==
  LET i == selectNextIterable(streams, g.args)
  IN  IF i = 0
      THEN [g EXCEPT !.streams = streams, !.cur = 0, !.pc = "done",
                     !.done = TRUE, !.value = None]
      ELSE [g EXCEPT !.streams = streams, !.cur = i, !.pc = "yield",
                     !.value = streams[i].value]

\* add moving on every stream that holds the instant just yielded
MutAddNextPicksEqual(g, yieldArgs) ==
  IF g.pc = "done" THEN g
  ELSE IF g.pc = "start"
  THEN AddYield(g, [i \in 1..Len(g.streams) |-> IterableWrapper(g.streams[i])])
  ELSE LET s1 == [i \in 1..Len(g.streams) |->
                    IF ~g.streams[i].done /\ isEqual(g.streams[i].value, g.value)
                    THEN picked(g.streams[i])
                    ELSE g.streams[i]]
           s2 == IF yieldArgs.skipToDate # None
                 THEN [i \in 1..Len(s1) |-> StreamSkipLoop(s1[i], yieldArgs.skipToDate, g.args)]
                 ELSE s1
       IN  AddYield(g, s2)

AddNext(g, yieldArgs) ==
  IF g.pc = "done" THEN g
  ELSE IF g.pc = "start"
  THEN AddYield(g, [i \in 1..Len(g.streams) |-> IterableWrapper(g.streams[i])])
  ELSE LET s1 == [g.streams EXCEPT ![g.cur] = picked(@)]
           s2 == IF yieldArgs.skipToDate # None
                 THEN [i \in 1..Len(s1) |-> StreamSkipLoop(s1[i], yieldArgs.skipToDate, g.args)]
                 ELSE s1
       IN  AddYield(g, s2)

\* ------------------------------------------------ SubtractOperator._run
\* subtract(...streams)({ base }) before its first next(): the base is the
\* inclusion stream, the union of the input streams the exclusion stream
SubtractRun(baseGen, streamGens, args) ==
  [kind      |-> "subtract",
   inclusion |-> baseGen,
   exclusion |-> AddRun(streamGens, args),
   args      |-> args,
   pc        |-> "start",
   done      |-> FALSE,
   value     |-> None]

RECURSIVE iterateExclusion(_, _, _)
\* advance the exclusion stream while it is behind the inclusion stream
iterateExclusion(inclusion, exclusion, args) ==
  IF ~exclusion.done /\ ~inclusion.done
     /\ ComesFirst(exclusion.value, inclusion.value, args)
  THEN iterateExclusion(inclusion, picked(exclusion), args)
  ELSE exclusion

RECURSIVE SubtractEqualLoop(_, _, _)
\* drop inclusion values equal to the exclusion stream's head, moving the
\* exclusion stream up in lock-step
SubtractEqualLoop(inclusion, exclusion, args) ==
  IF ~inclusion.done /\ ~exclusion.done /\ isEqual(inclusion.value, exclusion.value)
  THEN LET inc == picked(inclusion)
       IN  SubtractEqualLoop(inc, iterateExclusion(inc, exclusion, args), args)
  ELSE [inclusion |-> inclusion, exclusion |-> exclusion]

cycleStreams(inclusion, exclusion, args) ==
  SubtractEqualLoop(inclusion, iterateExclusion(inclusion, exclusion, args), args)

\* the loop head `while (!inclusion.done)` followed by the yield
SubtractYield(g, pair) ==
  IF pair.inclusion.done
  THEN [g EXCEPT !.inclusion = pair.inclusion, !.exclusion = pair.exclusion,
                 !.pc = "done", !.done = TRUE, !.value = None]
  ELSE [g EXCEPT !.inclusion = pair.inclusion, !.exclusion = pair.exclusion,
                 !.pc = "yield", !.value = pair.inclusion.value]

SubtractNext(g, yieldArgs) ==
  IF g.pc = "done" THEN g
  ELSE IF g.pc = "start"
  THEN IF g.inclusion = None
       THEN [g EXCEPT !.pc = "done", !.done = TRUE]
       ELSE SubtractYield(g, cycleStreams(IterableWrapper(g.inclusion),
                                          IterableWrapper(g.exclusion), g.args))
  ELSE LET i1 == picked(g.inclusion)
           i2 == IF yieldArgs.skipToDate # None
                 THEN StreamSkipLoop(i1, yieldArgs.skipToDate, g.args)
                 ELSE i1
       IN  SubtractYield(g, cycleStreams(i2, g.exclusion, g.args))

\* -------------------------------------------- IntersectionOperator._run
\* the fatal error of an operator that has used up its realignments
IntersectionOperatorError == "IntersectionOperatorError"

\* intersection({ maxFailedIterations, streams }) before its first next()
IntersectionRun(streamGens, maxFailedIterations, args) ==
  [kind    |-> "intersection",
   streams |-> streamGens,
   cur     |-> 0,
   maxFailedIterations |-> maxFailedIterations,
   lastValidDate |-> None,
   iteration |-> 0,
   args    |-> args,
   pc      |-> "start",
   done    |-> FALSE,
   value   |-> None]

RECURSIVE SkipEach(_, _, _)
\* streams.forEach(stream => stream.skipToDate(last))
SkipEach(streams, skipToDate, args) ==
  IF streams = <<>> THEN <<>>
  ELSE <<StreamSkipLoop(Head(streams), skipToDate, args)>>
         \o SkipEach(Tail(streams), skipToDate, args)

\* the realignment that never gives up
MutCycleVerdictUnbounded(streams, lastValidDate, iteration, maxFailedIterations, args) ==
  LET n == selectNextIterable(streams, args)
  IN  IF n = 0 THEN "exhausted"
      ELSE IF lastValidDate # None /\ isEqual(streams[n].value, lastValidDate)
      THEN "aligned"
      ELSE IF \E i \in 1..Len(streams) : streams[i].done THEN "exhausted"
      ELSE IF \A i \in 1..Len(streams) : isEqual(streams[i].value, streams[n].value)
      THEN "aligned"
      ELSE "retry"

\* One look at the pending values.  A pending value equal to the instant
\* emitted last is still part of that instant; otherwise every stream must
\* hold the same instant.  The operator is exhausted when a stream is, and
\* fails when the count of looks for this candidate, this one included,
\* passes maxFailedIterations.
CycleVerdict(streams, lastValidDate, iteration, maxFailedIterations, args) ==
  LET n == selectNextIterable(streams, args)
  IN  IF n = 0 THEN "exhausted"
      ELSE IF lastValidDate # None /\ isEqual(streams[n].value, lastValidDate)
      THEN "aligned"
      ELSE IF \E i \in 1..Len(streams) : streams[i].done THEN "exhausted"
      ELSE IF \A i \in 1..Len(streams) : isEqual(streams[i].value, streams[n].value)
      THEN "aligned"
      ELSE IF iteration > maxFailedIterations THEN "failed"
      ELSE "retry"

\* One realignment attempt: the look, and on "retry" every stream is moved up
\* to the furthest pending value.
IntersectionAttempt(g) ==
  LET verdict == CycleVerdict(g.streams, g.lastValidDate, g.iteration + 1,
                              g.maxFailedIterations, g.args)
  IN  [verdict |-> verdict,
       gen     |-> [g EXCEPT !.iteration = g.iteration + 1,
                             !.streams =
                               IF verdict = "retry"
                               THEN SkipEach(g.streams,
                                             g.streams[selectLastIterable(g.streams, g.args)].value,
                                             g.args)
                               ELSE g.streams]]

RECURSIVE IntersectionCycle(_)
\* the attempts of one pull, up to the one that settles it
IntersectionCycle(g) ==
  LET attempt == IntersectionAttempt(g)
  IN  IF attempt.verdict = "retry" THEN IntersectionCycle(attempt.gen) ELSE attempt

\* the end of a pull: the aligned instant is yielded, the operator is done
\* when a stream is exhausted, and the pull throws when the operator failed
IntersectionYield(attempt) ==
  LET g == attempt.gen
      i == selectNextIterable(g.streams, g.args)
  IN  IF attempt.verdict = "failed"
      THEN [g EXCEPT !.cur = 0, !.pc = "failed", !.done = TRUE, !.value = None]
      ELSE IF attempt.verdict = "exhausted" \/ i = 0
      THEN [g EXCEPT !.cur = 0, !.pc = "done", !.done = TRUE, !.value = None]
      ELSE [g EXCEPT !.cur = i, !.pc = "yield", !.value = g.streams[i].value]

\* the part of next(yieldArgs) before the realignment: the first next() wraps
\* the streams; a later one moves the stream just yielded from and hands a
\* skipToDate to every stream
IntersectionBegin(g, yieldArgs) ==
  IF g.pc = "start"
  THEN [g EXCEPT !.streams = [i \in 1..Len(g.streams) |-> IterableWrapper(g.streams[i])],
                 !.lastValidDate = None, !.iteration = 0, !.pc = "cycling"]
  ELSE LET s1 == [g.streams EXCEPT ![g.cur] = picked(@)]
           s2 == IF yieldArgs.skipToDate # None
                 THEN [i \in 1..Len(s1) |-> StreamSkipLoop(s1[i], yieldArgs.skipToDate, g.args)]
                 ELSE s1
       IN  [g EXCEPT !.streams = s2, !.lastValidDate = g.streams[g.cur].value,
                     !.iteration = 0, !.pc = "cycling"]

IntersectionNext(g, yieldArgs) ==
  IF g.done THEN g
  ELSE IF g.pc = "start" /\ Len(g.streams) = 0
  THEN [g EXCEPT !.pc = "done", !.done = TRUE]
  ELSE IntersectionYield(IntersectionCycle(IntersectionBegin(g, yieldArgs)))

\* ---------------------------------------------------- ScheduleBase._run
\* count = args.take; delete args.take; iterator = occurrenceStream._run(args):
\* `this` is the schedule, `occurrenceStream` the stream run without take,
\* `args` the args as the caller gave them
ScheduleBaseRun(this, occurrenceStream, args) ==
  [kind     |-> "schedule",
   this     |-> [id |-> this.id, timezone |-> this.timezone],
   iterator |-> occurrenceStream,
   count    |-> args.take,
   index    |-> 0,
   pc       |-> "start",
   done     |-> FALSE,
   value    |-> None]

\* while (date && (count === undefined || count > index)) {
\*   date = date.add(this, 'generator'); yield this.normalizeRunOutput(date)
ScheduleBaseYield(g, iterator, index) ==
  IF ~iterator.done /\ (g.count = TakeUndefined \/ g.count > index)
  THEN [g EXCEPT !.iterator = iterator, !.index = index, !.pc = "yield",
                 !.value = normalizeRunOutput(g.this,
                             add(iterator.value, g.this.id, "generator"))]
  ELSE [g EXCEPT !.iterator = iterator, !.index = index, !.pc = "done",
                 !.done = TRUE, !.value = None]

\* ScheduleBase._run pulling its stream with `iterator.next()`, the consumer's
\* yieldArgs left out
MutScheduleBaseNextWithoutYieldArgs(g, yieldArgs) ==
  IF g.pc = "done" THEN g
  ELSE IF g.pc = "start"
  THEN ScheduleBaseYield(g, GenNext(g.iterator, NoYieldArgs), 0)
  ELSE ScheduleBaseYield(g, GenNext(g.iterator, NoYieldArgs), g.index + 1)

ScheduleBaseNext(g, yieldArgs) ==
  IF g.pc = "done" THEN g
  ELSE IF g.pc = "start"
  THEN ScheduleBaseYield(g, GenNext(g.iterator, NoYieldArgs), 0)
  ELSE ScheduleBaseYield(g, GenNext(g.iterator, yieldArgs), g.index + 1)

\* ------------------------------------------------- PipeController._run
\* The occurrences of a rule of frequency and interval only: start,
\* start + interval, ... up to the rule's end; without an end they never run
\* out.  A run goes from args.start on, up to the earlier of the rule's end
\* and args.end; a run in reverse is seeded at the last occurrence and goes
\* down to the rule's start, and is asked for only of a run that has an end.
\* A skipToDate moves on to the first occurrence at or after it (in reverse,
\* the last at or before it).
FirstOnOrAfter(options, date) ==
  IF date = None \/ date.t <= options.start.t THEN options.start
  ELSE LET behind == (date.t - options.start.t) % options.interval
       IN  IF behind = 0 THEN date
           ELSE forkDateTime(options.start, date.t + options.interval - behind)

\* the last occurrence at or before the date; there is none before the start
LastOnOrBefore(options, date) ==
  IF date.t < options.start.t THEN None
  ELSE forkDateTime(options.start,
                    date.t - ((date.t - options.start.t) % options.interval))

ControllerRun(options, args) ==
  LET end == IF options.end = None THEN args.end
             ELSE IF args.end = None \/ isBefore(options.end, args.end)
             THEN options.end
             ELSE args.end
  IN  [kind    |-> "controller",
       options |-> options,
       reverse |-> args.reverse,
       first   |-> IF args.reverse
                   THEN IF end = None THEN None ELSE LastOnOrBefore(options, end)
                   ELSE FirstOnOrAfter(options, args.start),
       start   |-> args.start,
       end     |-> end,
       pc      |-> "start",
       done    |-> FALSE,
       value   |-> None]

ControllerNext(g, yieldArgs) ==
  IF g.pc = "done" THEN g
  ELSE LET skipToDate == yieldArgs.skipToDate
           following == forkDateTime(g.options.start, g.value.t + g.options.interval)
           preceding == forkDateTime(g.options.start, g.value.t - g.options.interval)
           date == IF g.pc = "start" THEN g.first
                   ELSE IF g.reverse
                   THEN IF skipToDate # None /\ isBefore(skipToDate, preceding)
                        THEN LastOnOrBefore(g.options, skipToDate)
                        ELSE preceding
                   ELSE IF skipToDate # None /\ isAfter(skipToDate, following)
                        THEN FirstOnOrAfter(g.options, skipToDate)
                        ELSE following
           past == IF date = None THEN TRUE
                   ELSE IF g.reverse
                   THEN \/ isBefore(date, g.options.start)
                        \/ g.start # None /\ isBefore(date, g.start)
                   ELSE g.end # None /\ isAfter(date, g.end)
       IN  IF past
           THEN [g EXCEPT !.pc = "done", !.done = TRUE, !.value = None]
           ELSE [g EXCEPT !.pc = "yield", !.value = date]

\* ------------------------------------------------------------ Rule._run
\* controller = new PipeController(options, args); iterator = controller._run();
\* `this` is the rule
RuleRun(this, controllerRun, args) ==
  [kind     |-> "rule",
   this     |-> [id |-> this.id, timezone |-> this.timezone],
   iterator |-> controllerRun,
   take     |-> args.take,
   index    |-> 0,
   pc       |-> "start",
   done     |-> FALSE,
   value    |-> None]

\* while (date && (args.take === undefined || index < args.take)) {
\*   index++; date.generators.unshift(this); yield this.normalizeRunOutput(date)
RuleYield(g, iterator) ==
  IF ~iterator.done /\ (g.take = TakeUndefined \/ g.index < g.take)
  THEN [g EXCEPT !.iterator = iterator, !.index = g.index + 1, !.pc = "yield",
                 !.value = normalizeRunOutput(g.this,
                             [iterator.value EXCEPT !.generators = <<g.this.id>> \o @])]
  ELSE [g EXCEPT !.iterator = iterator, !.pc = "done", !.done = TRUE, !.value = None]

RuleNext(g, yieldArgs) ==
  IF g.pc = "done" THEN g
  ELSE IF g.pc = "start"
  THEN RuleYield(g, GenNext(g.iterator, NoYieldArgs))
  ELSE RuleYield(g, GenNext(g.iterator, yieldArgs))

\* rule._run(args) of a Rule object
RuleObjectRun(rule, args) == RuleRun(rule, ControllerRun(rule.options, args), args)

\* --------------------------------------------------- Schedule (operators)
\* new Schedule({ rrules, exrules, rdates, exdates }): every rule given as
\* options becomes `new Rule(options, { timezone })`, the rdates and exdates
\* become Dates of the schedule's timezone
ScheduleRules(rulesOptions, name, timezone) ==
  [i \in 1..Len(rulesOptions) |-> NewRule(<<name, i>>, rulesOptions[i], timezone)]

NewSchedule(id, options, timezone) ==
  [class |-> "Schedule", id |-> id, timezone |-> timezone,
   rrules  |-> ScheduleRules(options.rrules, "rrules", timezone),
   exrules |-> ScheduleRules(options.exrules, "exrules", timezone),
   rdates  |-> NewDates(<<"rdates">>, options.rdates, timezone, 0),
   exdates |-> NewDates(<<"exdates">>, options.exdates, timezone, 0)]

\* the _run(args) of each rule of a list
RulesRun(rules, args) == [i \in 1..Len(rules) |-> RuleObjectRun(rules[i], args)]

\* the pipeline with the exrules subtracted after the rdates are added
MutScheduleExrulesAfterRdates(this, args) ==
  LET added     == AddRun(RulesRun(this.rrules, args), args)
      withDates == AddRun(<<DatesRun(this.rdates, args), added>>, args)
      excluded  == SubtractRun(withDates, RulesRun(this.exrules, args), args)
      cleared   == SubtractRun(excluded, <<DatesRun(this.exdates, args)>>, args)
  IN  UniqueRun(cleared, args)

\* operators = [add(...rrules), subtract(...exrules), add(rdates),
\* subtract(exdates), unique()]: an OccurrenceStream runs them in this order,
\* each one over the stream built so far as its base
ScheduleOccurrenceStream(this, args) ==
  LET added     == AddRun(RulesRun(this.rrules, args), args)
      excluded  == SubtractRun(added, RulesRun(this.exrules, args), args)
      withDates == AddRun(<<DatesRun(this.rdates, args), excluded>>, args)
      cleared   == SubtractRun(withDates, <<DatesRun(this.exdates, args)>>, args)
  IN  UniqueRun(cleared, args)

\* Schedule._run: count = args.take; delete args.take;
\* iterator = this.occurrenceStream._run(args)
ScheduleRun(this, args) ==
  ScheduleBaseRun(this,
                  ScheduleOccurrenceStream(this, [args EXCEPT !.take = TakeUndefined]),
                  args)

\* ----------------------------------------------------- VEvent (operators)
\* new VEvent({ start, rrules, exrules, rdates, exdates }): the timezone is
\* the start's; every rule given as options becomes a Rule that starts at the
\* event's start
VEventRules(rulesOptions, name, start) ==
  [i \in 1..Len(rulesOptions) |->
     NewRule(<<name, i>>,
             [start |-> start, interval |-> rulesOptions[i].interval,
              end |-> rulesOptions[i].end],
             start.timezone)]

NewVEvent(id, options) ==
  [class |-> "VEvent", id |-> id, timezone |-> options.start.timezone,
   start   |-> NewDates(<<"start">>, <<options.start>>, options.start.timezone, 0),
   rrules  |-> VEventRules(options.rrules, "rrules", options.start),
   exrules |-> VEventRules(options.exrules, "exrules", options.start),
   rdates  |-> NewDates(<<"rdates">>, options.rdates, options.start.timezone, 0),
   exdates |-> NewDates(<<"exdates">>, options.exdates, options.start.timezone, 0)]

\* the pipeline with the start added before the exrules are subtracted
MutVEventStartBeforeExrules(this, args) ==
  LET added     == AddRun(RulesRun(this.rrules, args), args)
      withStart == AddRun(<<DatesRun(this.start, args), added>>, args)
      excluded  == SubtractRun(withStart, RulesRun(this.exrules, args), args)
      withDates == AddRun(<<DatesRun(this.rdates, args), excluded>>, args)
      cleared   == SubtractRun(withDates, <<DatesRun(this.exdates, args)>>, args)
  IN  UniqueRun(cleared, args)

\* operators = [add(...rrules), subtract(...exrules),
\* add(new Dates({ dates: [this.start] })), add(rdates), subtract(exdates),
\* unique()], run in this order, each one over the stream built so far
VEventOccurrenceStream(this, args) ==
  LET added     == AddRun(RulesRun(this.rrules, args), args)
      excluded  == SubtractRun(added, RulesRun(this.exrules, args), args)
      withStart == AddRun(<<DatesRun(this.start, args), excluded>>, args)
      withDates == AddRun(<<DatesRun(this.rdates, args), withStart>>, args)
      cleared   == SubtractRun(withDates, <<DatesRun(this.exdates, args)>>, args)
  IN  UniqueRun(cleared, args)

\* VEvent._run: count = args.take; delete args.take;
\* iterator = this.occurrenceStream._run(args)
VEventRun(this, args) ==
  ScheduleBaseRun(this,
                  VEventOccurrenceStream(this, [args EXCEPT !.take = TakeUndefined]),
                  args)

\* ------------------------------------------------------- ResultPipe.run
\* `this.invalidIterationCount > 50`
InvalidIterationLimit == 50

\* what a call leaves its caller with
Returns(value) == [returns |-> value]

Throws(error) == [throws |-> error]

Null == [null |-> TRUE]

PipeError == "PipeError"

\* `throw new Error("Ooops! You've continued to use a rule iterator ...")`
Error == "Error"

\* the pipe is still inside `this.focusedPipe.run({ ...args, invalidDate: false })`
InFocusedPipe == [calls |-> "focusedPipe.run"]

\* new ResultPipe(controller): the private fields, with what the pipe reads of
\* its controller
ResultPipe(end) ==
  [invalidIterationCount |-> 0,
   previousIterationDate |-> None,
   end                   |-> end,
   controller            |-> [invalid |-> FALSE]]

\* IPipeRunFn { date, invalidDate }
PipeRunArgs(date, invalidDate) == [date |-> date, invalidDate |-> invalidDate]

\* ResultPipe.run raising at the limit instead of past it
MutResultPipeRunAtLimit(this, args) ==
  IF this.controller.invalid
  THEN [this |-> this, outcome |-> Throws(Error)]
  ELSE IF this.end # None /\ isAfter(args.date, this.end)
  THEN [this |-> this, outcome |-> Returns(Null)]
  ELSE IF args.invalidDate
  THEN LET counted == [this EXCEPT !.invalidIterationCount = @ + 1]
       IN  IF counted.invalidIterationCount >= InvalidIterationLimit
           THEN [this |-> counted, outcome |-> Throws(PipeError)]
           ELSE [this |-> counted, outcome |-> InFocusedPipe]
  ELSE IF /\ this.previousIterationDate # None
          /\ isAfterOrEqual(this.previousIterationDate, args.date)
  THEN [this |-> this, outcome |-> Returns(Null)]
  ELSE [this |-> [this EXCEPT !.previousIterationDate = args.date,
                              !.invalidIterationCount = 0],
        outcome |-> Returns(args.date)]

\* ResultPipe.run without `this.invalidIterationCount++`
MutResultPipeRunUncounted(this, args) ==
  IF this.controller.invalid
  THEN [this |-> this, outcome |-> Throws(Error)]
  ELSE IF this.end # None /\ isAfter(args.date, this.end)
  THEN [this |-> this, outcome |-> Returns(Null)]
  ELSE IF args.invalidDate
  THEN IF this.invalidIterationCount > InvalidIterationLimit
       THEN [this |-> this, outcome |-> Throws(PipeError)]
       ELSE [this |-> this, outcome |-> InFocusedPipe]
  ELSE IF /\ this.previousIterationDate # None
          /\ isAfterOrEqual(this.previousIterationDate, args.date)
  THEN [this |-> this, outcome |-> Returns(Null)]
  ELSE [this |-> [this EXCEPT !.previousIterationDate = args.date,
                              !.invalidIterationCount = 0],
        outcome |-> Returns(args.date)]

\* ResultPipe.run comparing the previous date with isAfter
MutResultPipeRunRepeats(this, args) ==
  IF this.controller.invalid
  THEN [this |-> this, outcome |-> Throws(Error)]
  ELSE IF this.end # None /\ isAfter(args.date, this.end)
  THEN [this |-> this, outcome |-> Returns(Null)]
  ELSE IF args.invalidDate
  THEN LET counted == [this EXCEPT !.invalidIterationCount = @ + 1]
       IN  IF counted.invalidIterationCount > InvalidIterationLimit
           THEN [this |-> counted, outcome |-> Throws(PipeError)]
           ELSE [this |-> counted, outcome |-> InFocusedPipe]
  ELSE IF /\ this.previousIterationDate # None
          /\ isAfter(this.previousIterationDate, args.date)
  THEN [this |-> this, outcome |-> Returns(Null)]
  ELSE [this |-> [this EXCEPT !.previousIterationDate = args.date,
                              !.invalidIterationCount = 0],
        outcome |-> Returns(args.date)]

\* ResultPipe.run(args): the pipe after the call and what the call comes to.
\* On an invalid candidate below the limit the call goes on into the focused
\* pipe, which hands this pipe the next candidate.
ResultPipeRun(this, args) ==
  IF this.controller.invalid
  THEN [this |-> this, outcome |-> Throws(Error)]
  ELSE IF this.end # None /\ isAfter(args.date, this.end)
  THEN [this |-> this, outcome |-> Returns(Null)]
  ELSE IF args.invalidDate
  THEN LET counted == [this EXCEPT !.invalidIterationCount = @ + 1]
       IN  IF counted.invalidIterationCount > InvalidIterationLimit
           THEN [this |-> counted, outcome |-> Throws(PipeError)]
           ELSE [this |-> counted, outcome |-> InFocusedPipe]
  ELSE IF /\ this.previousIterationDate # None
          /\ isAfterOrEqual(this.previousIterationDate, args.date)
  THEN [this |-> this, outcome |-> Returns(Null)]
  ELSE [this |-> [this EXCEPT !.previousIterationDate = args.date,
                              !.invalidIterationCount = 0],
        outcome |-> Returns(args.date)]

\* ------------------------------------------------- the constraint stages
\* new ValidDateTime(date) / new InvalidDateTime(date): the candidate a stage
\* hands on, flagged invalid when the stage moved it
ValidDateTime(date) == PipeRunArgs(date, FALSE)

InvalidDateTime(date) == PipeRunArgs(date, TRUE)

\* ByMonthOfYearRule.run wrapping round to the first listed month without
\* moving to the next year
MutByMonthOfYearRuleRunSameYear(options, date) ==
  LET currentMonth == get(date, "month")
      notPast == SelectSeq(options.byMonthOfYear, LAMBDA month : ~(currentMonth > month))
  IN  IF notPast = <<>>
      THEN InvalidDateTime(set(granularity(date, "year"), "month", options.byMonthOfYear[1]))
      ELSE IF currentMonth = Head(notPast)
      THEN ValidDateTime(date)
      ELSE InvalidDateTime(set(granularity(date, "year"), "month", Head(notPast)))

\* ByMonthOfYearRule.run(date): the first listed month not before the
\* candidate's decides; when there is none the candidate moves to the first
\* listed month of the next year
ByMonthOfYearRuleRun(options, date) ==
  LET currentMonth == get(date, "month")
      notPast == SelectSeq(options.byMonthOfYear, LAMBDA month : ~(currentMonth > month))
  IN  IF notPast = <<>>
      THEN InvalidDateTime(set(add(granularity(date, "year"), 1, "year"),
                               "month", options.byMonthOfYear[1]))
      ELSE IF currentMonth = Head(notPast)
      THEN ValidDateTime(date)
      ELSE InvalidDateTime(set(granularity(date, "year"), "month", Head(notPast)))

\* the by-day-of-month stage: valid on a listed day of the candidate's month
\* (a negative entry counts from the month's end); else the next listed day of
\* that month; else, the month holding none, the start of the next month
ByDayOfMonthRuleRun(options, date) ==
  LET length == monthLength(get(date, "month"), get(date, "year"))
      listed == {IF e > 0 THEN e ELSE length + 1 + e :
                   e \in {options.byDayOfMonth[i] : i \in 1..Len(options.byDayOfMonth)}}
      days   == listed \cap 1..length
      later  == {d \in days : d > get(date, "day")}
  IN  IF get(date, "day") \in days
      THEN ValidDateTime(date)
      ELSE IF later # {}
      THEN InvalidDateTime(set(granularity(date, "day"), "day",
                               CHOOSE d \in later : \A e \in later : d <= e))
      ELSE InvalidDateTime(add(granularity(date, "month"), 1, "month"))

\* focusedPipe.run({ date }): the stages in order, up to the first that moves
\* the candidate; the outcome is what reaches the ResultPipe
\* (the outcome of the first stage is bound, so that it is computed once)
FocusedPipeRun(options, date) ==
  CHOOSE result \in
    {IF byMonth.invalidDate THEN byMonth ELSE ByDayOfMonthRuleRun(options, byMonth.date) :
       byMonth \in {ByMonthOfYearRuleRun(options, date)}} : TRUE

\* ------------------------------------------------------ generator.next
GenNext(g, yieldArgs) ==
  CASE g.kind = "dates"        -> DatesNext(g, yieldArgs)
    [] g.kind = "unique"       -> UniqueNext(g, yieldArgs)
    [] g.kind = "add"          -> AddNext(g, yieldArgs)
    [] g.kind = "subtract"     -> SubtractNext(g, yieldArgs)
    [] g.kind = "intersection" -> IntersectionNext(g, yieldArgs)
    [] g.kind = "schedule"     -> ScheduleBaseNext(g, yieldArgs)
    [] g.kind = "rule"         -> RuleNext(g, yieldArgs)
    [] g.kind = "controller"   -> ControllerNext(g, yieldArgs)

RECURSIVE Occurrences(_)
\* for (const date of iterable) results.push(date): the whole sequence a
\* generator emits when it is never given a skipToDate
Occurrences(g) ==
  LET n == GenNext(g, NoYieldArgs)
  IN  IF n.done THEN <<>> ELSE <<n.value>> \o Occurrences(n)

\* ---------------------------------------------------------------- state
VARIABLES
  kind,           \* which generator the consumer traverses
  inputA,         \* dates given to `new Dates({ dates })` (first source)
  inputB,         \* dates of the second source
  args,           \* the IRunArgs of the traversal
  gen,            \* the generator object, suspended at its last yield
  emitted,        \* the values the consumer has received so far
  lastYieldArgs,  \* the argument of the latest next()
  wentBack,       \* some resume named a skipToDate behind the value just emitted
  schedule,       \* the options a Schedule is built from
  object,         \* the object whose methods are called directly
  call,           \* the arguments of the latest call on it
  returned,       \* what that call came to
  history         \* what the calls so far add up to

vars == <<kind, inputA, inputB, args, gen, emitted, lastYieldArgs, wentBack, schedule,
          object, call, returned, history>>

\* the variables of a traversal
traversal == <<kind, inputA, inputB, args, gen, emitted, lastYieldArgs, wentBack, schedule>>

\* no traversal is under way
NoTraversal ==
  /\ inputA = <<>>
  /\ inputB = <<>>
  /\ args = RunArgs(None, None, TakeUndefined, FALSE)
  /\ gen = None
  /\ emitted = <<>>
  /\ lastYieldArgs = NoYieldArgs
  /\ wentBack = FALSE
  /\ schedule = None

\* no object is called directly
NoObject ==
  /\ object = None
  /\ call = None
  /\ returned = None
  /\ history = None

SeqsUpTo(S, n) == UNION {[1..k -> S] : k \in 0..n}

IsSorted(s) == \A i \in 1..(Len(s) - 1) : dateTimeSortComparer(s[i], s[i + 1]) <= 0

SortedSeqsUpTo(S, n) == {s \in SeqsUpTo(S, n) : IsSorted(s)}

OptionalDateTimes == {None} \cup DateTimes

\* `_run(args)` of the object under traversal: operators hand the same args
\* to every stream they wrap; ScheduleBase removes `take` first
Run(k, a, b, runArgs) ==
  LET A == DatesRun(NewDates("A", a, "UTC", 0), runArgs)
      B == DatesRun(NewDates("B", b, "UTC", 0), runArgs)
      noTake == [runArgs EXCEPT !.take = TakeUndefined]
  IN  CASE k = "dates"          -> A
        [] k = "add"            -> AddRun(<<A, B>>, runArgs)
        [] k = "subtract"       -> SubtractRun(A, <<B>>, runArgs)
        [] k = "subtractNoBase" -> SubtractRun(None, <<A>>, runArgs)
        [] k = "intersection"   -> IntersectionRun(<<A, B>>, MaxFailedIterations, runArgs)
        [] k = "intersection1"  -> IntersectionRun(<<A>>, MaxFailedIterations, runArgs)
        [] k = "reunion"        -> AddRun(<<SubtractRun(A, <<B>>, runArgs),
                                             IntersectionRun(<<A, B>>, MaxFailedIterations, runArgs)>>,
                                           runArgs)
        [] k = "unique"         -> UniqueRun(A, runArgs)
        [] k = "uniqueAdd"      -> UniqueRun(AddRun(<<A, B>>, runArgs), runArgs)
        [] k = "unique2"        -> UniqueRun(UniqueRun(A, runArgs), runArgs)
        [] k = "schedule"       ->
             ScheduleBaseRun([id |-> "S", timezone |-> "UTC"],
                             DatesRun(NewDates("A", a, "UTC", 0), noTake), runArgs)
        [] k = "rule"           -> RuleObjectRun(NewRule("R", a, "UTC"), runArgs)

\* the kinds built from two sources
TwoSources == {"add", "subtract", "intersection", "uniqueAdd", "reunion"}

\* rules of frequency and interval, with or without an end
IntervalRuleOptions(intervals, ends) ==
  {options \in [start : DateTimes, interval : intervals, end : ends] :
     options.end = None \/ options.start.t <= options.end.t}

\* a rule is run in reverse when the rule or the args give an end
RunsToAnEnd(k, a, runArgs) ==
  k = "rule" /\ runArgs.reverse => a.end # None \/ runArgs.end # None

InitWith(kinds, inputs, takes) ==
  /\ kind \in kinds
  /\ inputA \in inputs
  /\ inputB \in (IF kind \in TwoSources THEN inputs ELSE {<<>>})
  /\ args \in {RunArgs(s, e, t, r) :
                 s \in OptionalDateTimes, e \in OptionalDateTimes,
                 t \in takes, r \in BOOLEAN}
  /\ RunsToAnEnd(kind, inputA, args)
  /\ gen = Run(kind, inputA, inputB, args)
  /\ emitted = <<>>
  /\ lastYieldArgs = NoYieldArgs
  /\ wentBack = FALSE
  /\ schedule = None
  /\ NoObject

\* one `iterator.next(yieldArgs)` by the consumer.  The first next() of a
\* ScheduleBase._run runs `delete args.take` on the args object of the caller.
Pull(yieldArgs) ==
  /\ ~gen.done
  /\ gen' = GenNext(gen, yieldArgs)
  /\ args' = IF gen.kind = "schedule" /\ gen.pc = "start"
             THEN [args EXCEPT !.take = TakeUndefined]
             ELSE args
  /\ emitted' = IF gen'.done THEN emitted ELSE Append(emitted, gen'.value)
  /\ lastYieldArgs' = yieldArgs
  /\ wentBack' = (wentBack \/ (/\ gen.pc = "yield"
                               /\ yieldArgs.skipToDate # None
                               /\ ComesFirst(yieldArgs.skipToDate, gen.value, args)))
  /\ history' = IF /\ gen.pc = "yield"
                   /\ yieldArgs.skipToDate # None
                   /\ isEqual(yieldArgs.skipToDate, gen.value)
                THEN [skippedToSame |-> TRUE]
                ELSE history
  /\ UNCHANGED <<kind, inputA, inputB, schedule, object, call, returned>>

\* the first next() takes no argument; a later one may carry a skipToDate
PullWithAnySkip ==
  /\ Len(emitted) < MaxPulls
  /\ \E skipToDate \in (IF gen.pc = "start" THEN {None} ELSE OptionalDateTimes) :
       Pull(YieldArgs(skipToDate))

\* ---- traversals whose consumer may resume with a skipToDate
DatesNextCall == kind = "dates" /\ PullWithAnySkip

ScheduleBaseNextCall == kind = "schedule" /\ PullWithAnySkip

RuleNextCall == kind = "rule" /\ PullWithAnySkip

InitSkip ==
  \/ InitWith({"dates", "schedule"}, SeqsUpTo(DateTimes, MaxLen),
              {TakeUndefined} \cup 0..MaxTake)
  \/ InitWith({"rule"}, IntervalRuleOptions(1..2, {None, DateTime(MaxT)}),
              {TakeUndefined} \cup 0..MaxTake)

NextSkip == DatesNextCall \/ ScheduleBaseNextCall \/ RuleNextCall

SpecSkip == InitSkip /\ [][NextSkip]_vars

\* ---- traversals by a `for (const date of iterable)` loop: next() only
IterateDates == kind = "dates" /\ Pull(NoYieldArgs)

IterateAdd == kind \in {"add", "reunion"} /\ Pull(NoYieldArgs)

IterateSubtract == kind \in {"subtract", "subtractNoBase"} /\ Pull(NoYieldArgs)

IterateIntersection == kind \in {"intersection", "intersection1"} /\ Pull(NoYieldArgs)

IterateUnique == kind \in {"unique", "uniqueAdd", "unique2"} /\ Pull(NoYieldArgs)

IterateRule == kind = "rule" /\ Pull(NoYieldArgs)

Init ==
  \/ InitWith({"dates", "add", "subtract", "subtractNoBase", "intersection",
               "intersection1", "unique", "uniqueAdd", "unique2", "reunion"},
              SortedSeqsUpTo(DateTimes, MaxOpLen), {TakeUndefined})
  \/ InitWith({"rule"}, IntervalRuleOptions(1..2, DateTimes), {TakeUndefined})

Next ==
  \/ IterateDates
  \/ IterateAdd
  \/ IterateSubtract
  \/ IterateIntersection
  \/ IterateUnique
  \/ IterateRule

Spec == Init /\ [][Next]_vars

\* ---- a Schedule of rrules, exrules, rdates and exdates
MaxDates == 2

\* what a Rule's pipes produce: strictly increasing occurrences
RuleOccurrences == {s \in SortedSeqsUpTo(DateTimes, MaxT) :
                      \A i \in 1..(Len(s) - 1) : s[i].t < s[i + 1].t}

\* rules that end: the end is the last occurrence, and a rule of one
\* occurrence has interval 1
MaxRRules == 2

EndingRules ==
  {options \in IntervalRuleOptions(1..2, DateTimes) :
     /\ (options.end.t - options.start.t) % options.interval = 0
     /\ options.interval > 1 => options.end.t > options.start.t}

\* the place of a rule among the ending rules
RuleRank(options) == (options.start.t * MaxT + options.end.t) * 2 + options.interval

\* exrules are told apart by what they exclude, not by their order
InRankOrder(rules) ==
  \A i \in 1..(Len(rules) - 1) : RuleRank(rules[i]) <= RuleRank(rules[i + 1])

\* exdates are given without repetition
DistinctDates == {s \in SortedSeqsUpTo(DateTimes, MaxDates) :
                    \A i \in 1..(Len(s) - 1) : s[i].t < s[i + 1].t}

ScheduleOptions ==
  [rrules  : SeqsUpTo(EndingRules, MaxRRules),
   exrules : {rules \in SeqsUpTo(EndingRules, MaxRRules) : InRankOrder(rules)},
   rdates  : SortedSeqsUpTo(DateTimes, MaxDates),
   exdates : DistinctDates]

InitSchedule ==
  /\ kind = "Schedule"
  /\ schedule \in ScheduleOptions
  /\ inputA = <<>>
  /\ inputB = <<>>
  /\ args \in {RunArgs(None, None, TakeUndefined, r) : r \in BOOLEAN}
  /\ gen = ScheduleRun(NewSchedule(<<"schedule">>, schedule, "UTC"), args)
  /\ emitted = <<>>
  /\ lastYieldArgs = NoYieldArgs
  /\ wentBack = FALSE
  /\ NoObject

ScheduleNext == kind = "Schedule" /\ Pull(NoYieldArgs)

SpecSchedule == InitSchedule /\ [][ScheduleNext]_vars

\* ---- a VEvent: its rules start at the event's start, so that none of their
\* occurrences is before it; the rdates may hold an instant twice, the
\* exdates are given without repetition
VEventRuleOptions == [interval : 1..2, end : DateTimes]

\* the rule as the event builds it
StartingAt(start, options) ==
  [start |-> start, interval |-> options.interval, end |-> options.end]

VEventOptions ==
  {options \in [start   : DateTimes,
                 rrules  : SeqsUpTo(VEventRuleOptions, MaxRRules),
                 exrules : SeqsUpTo(VEventRuleOptions, MaxRRules),
                 rdates  : SortedSeqsUpTo(DateTimes, MaxDates),
                 exdates : DistinctDates] :
     /\ \A i \in 1..Len(options.rrules) :
          StartingAt(options.start, options.rrules[i]) \in EndingRules
     /\ \A i \in 1..Len(options.exrules) :
          StartingAt(options.start, options.exrules[i]) \in EndingRules
     /\ InRankOrder([i \in 1..Len(options.exrules) |->
                       StartingAt(options.start, options.exrules[i])])}

InitVEvent ==
  /\ kind = "VEvent"
  /\ schedule \in VEventOptions
  /\ inputA = <<>>
  /\ inputB = <<>>
  /\ args \in {RunArgs(None, None, TakeUndefined, r) : r \in BOOLEAN}
  /\ gen = VEventRun(NewVEvent(<<"vevent">>, schedule), args)
  /\ emitted = <<>>
  /\ lastYieldArgs = NoYieldArgs
  /\ wentBack = FALSE
  /\ NoObject

VEventNext == kind = "VEvent" /\ Pull(NoYieldArgs)

SpecVEvent == InitVEvent /\ [][VEventNext]_vars

\* ---- an intersection of two rules without end
MaxInterval == 3

IntervalRules == IntervalRuleOptions(1..MaxInterval, {None})

\* intersection({ maxFailedIterations, streams: [ruleA, ruleB] })
InitIntersection ==
  /\ kind = "intersectionOfRules"
  /\ inputA \in IntervalRules
  /\ inputB \in IntervalRules
  /\ args \in {RunArgs(start, None, TakeUndefined, FALSE) : start \in OptionalDateTimes}
  /\ \E maxFailedIterations \in {1, 2, MaxFailedIterations} :
       gen = IntersectionRun(<<RuleObjectRun(NewRule("A", inputA, "UTC"), args),
                               RuleObjectRun(NewRule("B", inputB, "UTC"), args)>>,
                             maxFailedIterations, args)
  /\ emitted = <<>>
  /\ lastYieldArgs = NoYieldArgs
  /\ wentBack = FALSE
  /\ schedule = None
  /\ object = None
  /\ call = None
  /\ returned = None
  /\ history = [realignments |-> 0, pulled |-> None]

\* iterator.next(): the pull begins; `history` keeps the operator as the pull
\* found it and counts the realignments of the pull
IntersectionNextCall ==
  /\ kind = "intersectionOfRules"
  /\ gen.pc \in {"start", "yield"}
  /\ Len(emitted) < MaxPulls
  /\ gen' = IntersectionBegin(gen, NoYieldArgs)
  /\ call' = [method |-> "next"]
  /\ returned' = None
  /\ history' = [realignments |-> 0, pulled |-> gen]
  /\ lastYieldArgs' = NoYieldArgs
  /\ UNCHANGED <<kind, inputA, inputB, args, emitted, wentBack, schedule, object>>

\* one realignment attempt of the pull under way; the attempt that settles
\* the pull ends it: a value is yielded, the operator is done, or the pull
\* throws
IntersectionAttemptCall ==
  /\ kind = "intersectionOfRules"
  /\ gen.pc = "cycling"
  /\ \E attempt \in {IntersectionAttempt(gen)} :
       IF attempt.verdict = "retry"
       THEN /\ gen' = attempt.gen
            /\ history' = [history EXCEPT !.realignments = @ + 1]
            /\ UNCHANGED <<emitted, returned>>
       ELSE \E after \in {IntersectionYield(attempt)} :
              /\ gen' = after
              /\ emitted' = IF after.done THEN emitted ELSE Append(emitted, after.value)
              /\ returned' = IF after.pc = "failed" THEN Throws(IntersectionOperatorError)
                             ELSE IF after.done THEN Returns(Null)
                             ELSE Returns(after.value)
              /\ UNCHANGED history
  /\ UNCHANGED <<kind, inputA, inputB, args, lastYieldArgs, wentBack, schedule, object, call>>

NextIntersection == IntersectionNextCall \/ IntersectionAttemptCall

SpecIntersection == InitIntersection /\ [][NextIntersection]_vars

\* ---- one rule iteration seen from its ResultPipe: the pipes before it hand
\* it one candidate per run
InitResultPipe ==
  /\ kind = "ResultPipe"
  /\ NoTraversal
  /\ object \in {ResultPipe(end) : end \in OptionalDateTimes}
  /\ call = None
  /\ returned = None
  /\ history = [invalidInARow |-> 0, returnedBefore |-> None]

\* the call returned a date
ReturnedDate(outcome) ==
  IF "returns" \in DOMAIN outcome THEN "t" \in DOMAIN outcome.returns ELSE FALSE

\* the iteration goes on until run returns null or throws
IterationOver == returned \in {Returns(Null), Throws(PipeError), Throws(Error)}

ResultPipeRunCall ==
  /\ kind = "ResultPipe"
  /\ ~IterationOver
  /\ \E date \in DateTimes, invalidDate \in BOOLEAN :
       LET ran == ResultPipeRun(object, PipeRunArgs(date, invalidDate))
       IN  /\ object' = ran.this
           /\ returned' = ran.outcome
           /\ call' = PipeRunArgs(date, invalidDate)
           /\ history' = [invalidInARow  |-> IF invalidDate THEN history.invalidInARow + 1
                                              ELSE 0,
                           returnedBefore |-> IF ReturnedDate(returned) THEN returned.returns
                                              ELSE history.returnedBefore]
  /\ UNCHANGED traversal

\* `Rule#options` is updated while the iterator is in use
ControllerInvalidated ==
  /\ kind = "ResultPipe"
  /\ ~IterationOver
  /\ ~object.controller.invalid
  /\ object' = [object EXCEPT !.controller.invalid = TRUE]
  /\ UNCHANGED <<call, returned, history>>
  /\ UNCHANGED traversal

NextResultPipe == ResultPipeRunCall \/ ControllerInvalidated

SpecResultPipe == InitResultPipe /\ [][NextResultPipe]_vars

\* ---- the first pull of a rule with byMonthOfYear and byDayOfMonth, pass by
\* pass through its pipes
RuleStarts ==
  {forkDateTime(DateTime(0), DateUTC(ymdh[1], ymdh[2], ymdh[3], ymdh[4])) :
     ymdh \in {<<2019, 1, 1, 0>>, <<2019, 1, 31, 9>>, <<2019, 2, 28, 0>>, <<2019, 3, 1, 0>>,
               <<2019, 12, 31, 23>>, <<2020, 2, 29, 12>>, <<2020, 3, 31, 0>>}}

RuleOptions ==
  [start        : RuleStarts,
   byMonthOfYear : {<<2>>, <<4>>, <<2, 4>>, <<2, 12>>, <<4, 6, 9, 11>>},
   byDayOfMonth  : {<<31>>, <<30>>, <<29>>, <<15>>, <<-1>>, <<30, 31>>}]

InitRule ==
  /\ kind = "Rule"
  /\ NoTraversal
  /\ \E options \in RuleOptions :
       /\ object = [options |-> options, pipe |-> ResultPipe(None)]
       /\ call = ValidDateTime(options.start)
  /\ returned = None
  /\ history = [iterations |-> 0, candidate |-> None, byMonthOfYear |-> None]

\* the pull is over once ResultPipe.run has returned a date or null, or thrown
PullOver == returned # None /\ returned # InFocusedPipe

\* one pass: the candidate goes through the stages and reaches ResultPipe.run,
\* which, on an invalid candidate below its limit, starts the next pass from
\* the repaired date
FocusedPipeRunCall ==
  /\ kind = "Rule"
  /\ ~PullOver
  /\ \E candidate \in {FocusedPipeRun(object.options, call.date)} :
     \E ran \in {ResultPipeRun(object.pipe, candidate)} :
       /\ object' = [object EXCEPT !.pipe = ran.this]
       /\ returned' = ran.outcome
       /\ call' = candidate
       /\ history' = [iterations    |-> history.iterations + 1,
                       candidate     |-> call.date,
                       byMonthOfYear |-> ByMonthOfYearRuleRun(object.options, call.date)]
  /\ UNCHANGED traversal

SpecRule == InitRule /\ [][FocusedPipeRunCall]_vars

\* ---- one DateTime and the calls made on it
\* the label null (local time) is written as a string, so that labels compare
Timezones == {"UTC", "null", "America/Los_Angeles"}

Comparisons == {"isEqual", "isBefore", "isBeforeOrEqual", "isAfter", "isAfterOrEqual"}

\* new DateTime(date, timezone, duration, generators)
DateTimeObjects(generators) ==
  {NewDateTime(start.t, timezone, duration, generator) :
     start \in RuleStarts, timezone \in Timezones, duration \in {0, 1},
     generator \in generators}

\* the comparison asserts the same timezone before it looks at the timestamps
Compare(this, method, argument) ==
  LET result == CASE method = "isEqual"         -> isEqual(this, argument)
                  [] method = "isBefore"        -> isBefore(this, argument)
                  [] method = "isBeforeOrEqual" -> isBeforeOrEqual(this, argument)
                  [] method = "isAfter"         -> isAfter(this, argument)
                  [] method = "isAfterOrEqual"  -> isAfterOrEqual(this, argument)
  IN  IF argument # None /\ ~assertSameTimeZone(this, argument)
      THEN Throws(InvalidDateTimeError)
      ELSE Returns(result)

\* the calls that derive one DateTime from another
TransformCalls ==
  [method : {"add"}, unit : {"generator"}, value : {"dates"}]
    \cup [method : {"add", "subtract"}, unit : {"year", "month", "week", "day", "hour"},
          value : 0..2]
    \cup [method : {"set"}, unit : {"duration"}, value : -1..2]
    \cup [method : {"set"}, unit : {"year"}, value : {2019, 2020}]
    \cup [method : {"set"}, unit : {"month"}, value : 1..12]
    \cup [method : {"set"}, unit : {"day"}, value : {1, 31}]
    \cup [method : {"set"}, unit : {"hour"}, value : {0, 23}]
    \cup [method : {"granularity", "endGranularity"},
          unit : {"year", "month", "day", "hour"}, value : {0}]

\* the helper working on this.date itself instead of on a copy of it
MutTransformInPlace(this, c) ==
  LET result == CASE c.method = "add"            -> add(this, c.value, c.unit)
                  [] c.method = "subtract"       -> subtract(this, c.value, c.unit)
                  [] c.method = "set"            -> set(this, c.unit, c.value)
                  [] c.method = "granularity"    -> granularity(this, c.unit)
                  [] c.method = "endGranularity" -> endGranularity(this, c.unit)
  IN  IF IsInvalidDateTimeError(result)
      THEN [this |-> this, outcome |-> Throws(InvalidDateTimeError)]
      ELSE [this |-> [this EXCEPT !.t = result.t], outcome |-> Returns(result)]

\* One of add, subtract, set, granularity, endGranularity: the receiver as the
\* call leaves it, and the DateTime returned.  Each method builds its result
\* from a copy (`new Date(date)`, `this.generators.slice()`) and constructs a
\* DateTime from it; none assigns to a field of `this`.  What the constructor
\* throws leaves the call.
Transform(this, c) ==
  LET result == CASE c.method = "add"            -> add(this, c.value, c.unit)
                  [] c.method = "subtract"       -> subtract(this, c.value, c.unit)
                  [] c.method = "set"            -> set(this, c.unit, c.value)
                  [] c.method = "granularity"    -> granularity(this, c.unit)
                  [] c.method = "endGranularity" -> endGranularity(this, c.unit)
  IN  IF IsInvalidDateTimeError(result)
      THEN [this |-> this, outcome |-> Throws(InvalidDateTimeError)]
      ELSE [this |-> this, outcome |-> Returns(result)]

InitDateTime ==
  /\ kind = "DateTime"
  /\ NoTraversal
  /\ object \in DateTimeObjects({<<>>, <<"rule">>})
  /\ call = None
  /\ returned = None
  /\ history = [constructed |-> object]

CompareCall ==
  /\ kind = "DateTime"
  /\ call = None
  /\ \E method \in Comparisons :
     \E argument \in DateTimeObjects({<<>>}) \cup (IF method = "isEqual" THEN {None} ELSE {}) :
       /\ call' = [method |-> method, argument |-> argument]
       /\ returned' = Compare(object, method, argument)
  /\ UNCHANGED <<traversal, object, history>>

TransformCall ==
  /\ kind = "DateTime"
  /\ call = None
  /\ \E c \in TransformCalls :
       LET after == Transform(object, c)
       IN  /\ call' = c
           /\ object' = after.this
           /\ returned' = after.outcome
  /\ UNCHANGED <<traversal, history>>

NextDateTime == CompareCall \/ TransformCall

SpecDateTime == InitDateTime /\ [][NextDateTime]_vars

\* ---- a Dates or Rule object, its methods, and a traversal of it in flight

\* Array.prototype.findIndex, then splice(index, 1)
RemoveFirst(dates, value) ==
  LET found == {i \in 1..Len(dates) : valueOf(dates[i]) = valueOf(value)}
  IN  IF found = {} THEN dates
      ELSE LET index == CHOOSE i \in found : \A j \in found : i <= j
           IN  SubSeq(dates, 1, index - 1) \o SubSeq(dates, index + 1, Len(dates))

\* Dates.add pushing the date onto the arrays of the receiver
MutObjectCallAddInPlace(this, c, id) ==
  IF this.class = "Dates" /\ c.method = "add"
  THEN [this    |-> [this EXCEPT !.adapters = Append(this.adapters, c.value),
                                 !.datetimes = Append(this.datetimes, c.value)],
        outcome |-> Returns(NewDates(id, Append(this.adapters, c.value), this.timezone, 0))]
  ELSE [this |-> this, outcome |-> Returns(this)]

\* the hours a zone's clocks are ahead of UTC in January
utcOffset(timezone) == IF timezone = "America/Los_Angeles" THEN -8 ELSE 0

\* json = adapter.toJSON(); json.timezone = value; dateAdapter.fromJSON(json):
\* the date that shows, in the zone `value`, the local time the adapter
\* shows in its own
KeepLocalTime(adapter, value) ==
  LET localTime == adapter.t + utcOffset(adapter.timezone)
  IN  NewDateTime(localTime - utcOffset(value), value, adapter.duration, <<>>)

\* Dates.add, remove, set, filter and Rule.set: the receiver as the call
\* leaves it, and the object returned; `id` is the identity a constructed
\* object gets.  filter is called with `date => date.valueOf() >= value`.
ObjectCall(this, c, id) ==
  LET timezone == IF c.prop = "timezone" THEN c.value ELSE this.timezone
      dates ==
        CASE c.method = "add"    -> Append(this.adapters, c.value)
          [] c.prop = "timezone" /\ c.keepLocalTime ->
               [i \in 1..Len(this.adapters) |-> KeepLocalTime(this.adapters[i], c.value)]
          [] c.method = "remove" -> RemoveFirst(this.adapters, c.value)
          [] c.method = "filter" ->
               SelectSeq(this.adapters, LAMBDA d : valueOf(d) >= valueOf(c.value))
          [] c.prop = "dates"    -> c.value
          [] c.prop = "duration" ->
               [i \in 1..Len(this.adapters) |-> set(this.adapters[i], "duration", c.value)]
          [] OTHER               -> this.adapters
      options ==
        CASE c.prop = "timezone" -> this.options
          [] c.prop = "options"  -> c.value
          [] OTHER               -> [this.options EXCEPT ![c.prop] = c.value]
  IN  [this    |-> this,
       outcome |-> IF c.prop = "timezone" /\ c.value = this.timezone
                   THEN Returns(this)
                   ELSE IF this.class = "Dates"
                   THEN Returns(NewDates(id, dates, timezone, 0))
                   ELSE Returns(NewRule(id, options, timezone))]

\* _run(args) before the first next(): nothing of its body has run yet
ObjectRun(runArgs) == [args |-> runArgs, aliased |-> FALSE, inner |-> None]

\* Dates._run reversing the array of the object itself
MutObjectNextReverseInPlace(this, g, yieldArgs) ==
  IF g.inner = None
  THEN LET sorted == SortDateTimes(this.datetimes)
           started == DatesRun([this EXCEPT !.datetimes = sorted], g.args)
       IN  [this |-> [this EXCEPT !.datetimes = IF g.args.reverse THEN Reverse(sorted)
                                                 ELSE sorted],
            gen  |-> [g EXCEPT !.aliased = (g.args.start = None /\ g.args.end = None
                                            /\ g.args.take \in {TakeUndefined, 0}),
                               !.inner = DatesNext(started, yieldArgs)]]
  ELSE [this |-> this,
        gen  |-> [g EXCEPT !.inner =
                    DatesNext([g.inner EXCEPT !.dates = IF g.aliased THEN this.datetimes
                                                        ELSE g.inner.dates],
                              yieldArgs)]]

\* One next(yieldArgs) on a traversal of `this`.  The first one runs the
\* head of _run: Dates sorts this.datetimes in place and, when no argument
\* makes it filter or slice, goes on reading that very array; Rule hands
\* its options to a PipeController.
ObjectNext(this, g, yieldArgs) ==
  IF g.inner # None
  THEN [this |-> this,
        gen  |-> [g EXCEPT !.inner =
                    IF this.class = "Rule" THEN RuleNext(g.inner, yieldArgs)
                    ELSE DatesNext([g.inner EXCEPT !.dates = IF g.aliased THEN this.datetimes
                                                              ELSE g.inner.dates],
                                   yieldArgs)]]
  ELSE IF this.class = "Rule"
  THEN [this |-> this,
        gen  |-> [g EXCEPT !.inner =
                    RuleNext(RuleObjectRun(this, g.args), NoYieldArgs)]]
  ELSE LET sorted == SortDateTimes(this.datetimes)
       IN  [this |-> [this EXCEPT !.datetimes = sorted],
            gen  |-> [g EXCEPT !.aliased = (/\ g.args.start = None /\ g.args.end = None
                                            /\ ~g.args.reverse
                                            /\ g.args.take \in {TakeUndefined, 0}),
                               !.inner = DatesNext(DatesRun([this EXCEPT !.datetimes = sorted],
                                                            g.args),
                                                   yieldArgs)]]

TraversalArgs ==
  {RunArgs(None, None, TakeUndefined, FALSE), RunArgs(None, None, TakeUndefined, TRUE),
   RunArgs(DateTime(2), None, TakeUndefined, FALSE), RunArgs(None, DateTime(2), 0, TRUE),
   RunArgs(None, None, 1, FALSE), RunArgs(DateTime(1), DateTime(MaxT), 2, TRUE)}

Objects ==
  {NewDates(1, dates, "UTC", 0) : dates \in SeqsUpTo(DateTimes, MaxDates)}
    \cup {NewRule(1, options, "UTC") : options \in IntervalRules}

\* set('timezone', value, { keepLocalTime: true }) is a call on a Dates
ObjectCalls(class) ==
  [method : {"set"}, prop : {"timezone"}, value : {"UTC", "null"}, keepLocalTime : {FALSE}]
    \cup IF class = "Rule"
         THEN [method : {"set"}, prop : {"options"},
               value : {[start |-> DateTime(1), interval |-> 1, end |-> None]},
               keepLocalTime : {FALSE}]
                \cup [method : {"set"}, prop : {"interval"}, value : 1..2,
                      keepLocalTime : {FALSE}]
                \cup [method : {"set"}, prop : {"start"}, value : {DateTime(MaxT)},
                      keepLocalTime : {FALSE}]
         ELSE [method : {"add", "remove"}, prop : {"none"}, value : DateTimes,
               keepLocalTime : {FALSE}]
                \cup [method : {"filter"}, prop : {"none"}, value : {DateTime(2)},
                      keepLocalTime : {FALSE}]
                \cup [method : {"set"}, prop : {"dates"}, value : {<<>>, <<DateTime(1)>>},
                      keepLocalTime : {FALSE}]
                \cup [method : {"set"}, prop : {"duration"}, value : {0, 1},
                      keepLocalTime : {FALSE}]
                \cup [method : {"set"}, prop : {"timezone"},
                      value : {"UTC", "America/Los_Angeles"}, keepLocalTime : {TRUE}]

\* `history` follows a second copy of the object that is traversed with the
\* same arguments and on which no method is called
InitObject ==
  /\ kind = "Object"
  /\ inputA = <<>>
  /\ inputB = <<>>
  /\ args \in TraversalArgs
  /\ gen = ObjectRun(args)
  /\ emitted = <<>>
  /\ lastYieldArgs = NoYieldArgs
  /\ wentBack = FALSE
  /\ schedule = None
  /\ object \in Objects
  /\ object.class = "Rule" => RunsToAnEnd("rule", object.options, args)
  /\ call = None
  /\ returned = None
  /\ history = [alone |-> [this |-> object, gen |-> gen], emitted |-> <<>>, callAt |-> -1]

ObjectPull ==
  /\ kind = "Object"
  /\ IF gen.inner = None THEN TRUE ELSE ~gen.inner.done
  /\ Len(emitted) < MaxPulls
  /\ \E skipToDate \in (IF gen.inner = None THEN {None} ELSE OptionalDateTimes) :
       LET after == ObjectNext(object, gen, YieldArgs(skipToDate))
           alone == ObjectNext(history.alone.this, history.alone.gen, YieldArgs(skipToDate))
           yield(g, sofar) == IF g.inner.done THEN sofar ELSE Append(sofar, g.inner.value)
       IN  /\ object' = after.this
           /\ gen' = after.gen
           /\ emitted' = yield(after.gen, emitted)
           /\ lastYieldArgs' = YieldArgs(skipToDate)
           /\ history' = [history EXCEPT !.alone = alone,
                                         !.emitted = yield(alone.gen, history.emitted)]
  /\ UNCHANGED <<kind, inputA, inputB, args, wentBack, schedule, call, returned>>

ObjectMethodCall ==
  /\ kind = "Object"
  /\ call = None
  /\ \E c \in ObjectCalls(object.class) :
       LET after == ObjectCall(object, c, object.id + 1)
       IN  /\ call' = c
           /\ object' = after.this
           /\ returned' = after.outcome
  /\ history' = [history EXCEPT !.callAt = Len(emitted)]
  /\ UNCHANGED traversal

NextObject == ObjectPull \/ ObjectMethodCall

SpecObject == InitObject /\ [][NextObject]_vars

\* ---- ByDayOfMonthRuleModule.normalizeOptions
RuleOptionError == "RuleOptionError"

TypeError == "TypeError"

\* a value given for an option: an array of numbers, or a number where an
\* array is expected
Array(entries) == [array |-> entries]

Number(n) == [number |-> n]

isArray(value) == "array" \in DOMAIN value

\* the range test as its error message words it: `num < 31 && num > -31`
MutNormalizeOptionsExclusive(options, norm) ==
  IF options.byDayOfMonth # None
  THEN IF options.frequency = "WEEKLY" THEN [norm |-> norm, outcome |-> Throws(RuleOptionError)]
       ELSE IF ~isArray(options.byDayOfMonth)
       THEN [norm |-> norm, outcome |-> Throws(RuleOptionError)]
       ELSE IF \E i \in 1..Len(options.byDayOfMonth.array) :
                 LET num == options.byDayOfMonth.array[i]
                 IN  num = 0 \/ num <= -31 \/ num >= 31
       THEN [norm |-> norm, outcome |-> Throws(RuleOptionError)]
       ELSE [norm    |-> [norm EXCEPT !.byDayOfMonth = options.byDayOfMonth],
             outcome |-> Returns(None)]
  ELSE [norm |-> norm, outcome |-> Returns(None)]

\* normalizeOptions defaulting byDayOfMonth whatever byDayOfWeek and the
\* frequency are
MutNormalizeOptionsDefaultAlways(options, norm) ==
  IF options.byDayOfMonth # None
  THEN MutNormalizeOptionsExclusive(options, norm)
  ELSE [norm    |-> [norm EXCEPT !.byDayOfMonth = Array(<<get(norm.start, "day")>>)],
        outcome |-> Returns(None)]

\* normalizeOptions(options, norm): the normalized options as the call leaves
\* them, and how the call ends (an array, even an empty one, is truthy)
ByDayOfMonthNormalizeOptions(options, norm) ==
  IF options.byDayOfMonth # None
  THEN IF options.frequency = "WEEKLY" THEN [norm |-> norm, outcome |-> Throws(RuleOptionError)]
       ELSE IF ~isArray(options.byDayOfMonth)
       THEN [norm |-> norm, outcome |-> Throws(RuleOptionError)]
       ELSE IF \E i \in 1..Len(options.byDayOfMonth.array) :
                 LET num == options.byDayOfMonth.array[i]
                 IN  num = 0 \/ num < -31 \/ num > 31
       THEN [norm |-> norm, outcome |-> Throws(RuleOptionError)]
       ELSE [norm    |-> [norm EXCEPT !.byDayOfMonth = options.byDayOfMonth],
             outcome |-> Returns(None)]
  ELSE IF options.byDayOfWeek = None /\ options.frequency \in {"YEARLY", "MONTHLY"}
  THEN [norm    |-> [norm EXCEPT !.byDayOfMonth = Array(<<get(norm.start, "day")>>)],
        outcome |-> Returns(None)]
  ELSE [norm |-> norm, outcome |-> Returns(None)]

MaxEntries == 2

ProvidedRuleOptions ==
  [frequency    : {"YEARLY", "MONTHLY", "WEEKLY", "DAILY"},
   byDayOfMonth : {None, Number(15), Number(0)}
                    \cup {Array(entries) :
                            entries \in SeqsUpTo({-32, -31, -1, 0, 1, 31, 32}, MaxEntries)},
   byDayOfWeek  : {None, Array(<<>>), Array(<<"MO">>)}]

\* `object` is the normalized options under construction, `call` the options
\* provided
InitNormalizeOptions ==
  /\ kind = "normalizeOptions"
  /\ NoTraversal
  /\ object \in [start : RuleStarts, byDayOfMonth : {None}]
  /\ call \in ProvidedRuleOptions
  /\ returned = None
  /\ history = None

NormalizeOptionsCall ==
  /\ kind = "normalizeOptions"
  /\ returned = None
  /\ LET after == ByDayOfMonthNormalizeOptions(call, object)
     IN  /\ object' = after.norm
         /\ returned' = after.outcome
  /\ UNCHANGED <<traversal, call, history>>

SpecNormalizeOptions == InitNormalizeOptions /\ [][NormalizeOptionsCall]_vars

\* ---- a Rule from `new Rule(options)` to the first pull of its traversal
Frequencies == {"YEARLY", "MONTHLY", "WEEKLY", "DAILY", "HOURLY", "MINUTELY", "SECONDLY"}

\* the normalized options before any module has filled them in
BareOptions(options) ==
  [start |-> options.start, interval |-> Number(1), byMonthOfYear |-> None,
   byDayOfMonth |-> None]

\* FrequencyRuleModule.normalizeOptions: the frequency is one of the seven,
\* the interval, when given, a positive integer
FrequencyNormalizeOptions(options, norm) ==
  IF options.frequency \notin Frequencies
  THEN [norm |-> norm, outcome |-> Throws(RuleOptionError)]
  ELSE IF options.interval = None THEN [norm |-> norm, outcome |-> Returns(None)]
  ELSE IF options.interval.number < 1
  THEN [norm |-> norm, outcome |-> Throws(RuleOptionError)]
  ELSE [norm |-> [norm EXCEPT !.interval = options.interval], outcome |-> Returns(None)]

\* ByMonthOfYearRuleModule.normalizeOptions: an array of months 1..12
ByMonthOfYearNormalizeOptions(options, norm) ==
  IF options.byMonthOfYear = None THEN [norm |-> norm, outcome |-> Returns(None)]
  ELSE IF ~isArray(options.byMonthOfYear)
  THEN [norm |-> norm, outcome |-> Throws(RuleOptionError)]
  ELSE IF \E i \in 1..Len(options.byMonthOfYear.array) :
            options.byMonthOfYear.array[i] < 1 \/ options.byMonthOfYear.array[i] > 12
  THEN [norm |-> norm, outcome |-> Throws(RuleOptionError)]
  ELSE [norm |-> [norm EXCEPT !.byMonthOfYear = options.byMonthOfYear],
        outcome |-> Returns(None)]

\* normalizeRuleOptions(dateAdapter, options): every module's
\* normalizeOptions(options, norm) in turn, each one after those it depends
\* on; the first one that throws ends the call
normalizeRuleOptions(options) ==
  CHOOSE normalized \in
    {IF frequency.outcome = Throws(RuleOptionError) THEN frequency
     ELSE IF byMonthOfYear.outcome = Throws(RuleOptionError) THEN byMonthOfYear
     ELSE byDayOfMonth :
       frequency \in {FrequencyNormalizeOptions(options, BareOptions(options))},
       byMonthOfYear \in {ByMonthOfYearNormalizeOptions(
                            options,
                            FrequencyNormalizeOptions(options, BareOptions(options)).norm)},
       byDayOfMonth \in {ByDayOfMonthNormalizeOptions(
                           options,
                           ByMonthOfYearNormalizeOptions(
                             options,
                             FrequencyNormalizeOptions(options, BareOptions(options)).norm).norm)}} :
      TRUE

\* the constructor keeping the options as given, without normalizeRuleOptions
MutRuleConstructorUnchecked(id, options, timezone) ==
  Returns([class            |-> "Rule",
           id               |-> id,
           timezone         |-> IF timezone # "undefined" THEN timezone ELSE options.start.timezone,
           options          |-> options,
           processedOptions |-> [start |-> options.start,
                                 interval |-> options.interval,
                                 byMonthOfYear |-> options.byMonthOfYear,
                                 byDayOfMonth |-> options.byDayOfMonth]])

\* new Rule(options, { timezone }): what normalizeRuleOptions throws leaves
\* the constructor; otherwise the object holds the normalized options
\* (a timezone left out of the arguments is written "undefined")
RuleConstructor(id, options, timezone) ==
  CHOOSE result \in
    {IF normalized.outcome = Throws(RuleOptionError)
     THEN normalized.outcome
     ELSE Returns([class            |-> "Rule",
                   id               |-> id,
                   timezone         |-> IF timezone # "undefined" THEN timezone
                                        ELSE normalized.norm.start.timezone,
                   options          |-> options,
                   processedOptions |-> normalized.norm]) :
       normalized \in {normalizeRuleOptions(options)}} : TRUE

\* Rule.set(prop, value)
RuleSet(this, prop, value, id) ==
  IF prop = "timezone"
  THEN IF value = this.timezone THEN Returns(this)
       ELSE RuleConstructor(id, this.options, value)
  ELSE IF prop = "options" THEN RuleConstructor(id, value, this.timezone)
  ELSE RuleConstructor(id, [this.options EXCEPT ![prop] = value], this.timezone)

\* One pass of Rule._run's controller over this.processedOptions: the
\* candidate goes through the by-day-of-month stage, when the normalized
\* options hold a byDayOfMonth, and reaches ResultPipe.run; the pull is over
\* when ResultPipe.run returns or throws.  The stage reads the option as the
\* array of days it is normalized to: on anything else its array method is
\* not a function, and the pull ends in that TypeError.
RulePass(this, g) ==
  LET date == g.candidate.date
      byDayOfMonth == this.processedOptions.byDayOfMonth
  IN  IF byDayOfMonth # None /\ ~isArray(byDayOfMonth)
      THEN [gen |-> [g EXCEPT !.over = TRUE], outcome |-> Throws(TypeError)]
      ELSE CHOOSE after \in
             {[gen     |-> [pipe |-> ran.this, candidate |-> candidate,
                            over |-> ran.outcome # InFocusedPipe],
               outcome |-> ran.outcome] :
                candidate \in {IF byDayOfMonth = None THEN ValidDateTime(date)
                               ELSE ByDayOfMonthRuleRun(
                                      [byDayOfMonth |-> byDayOfMonth.array], date)},
                ran \in {ResultPipeRun(
                           g.pipe,
                           IF byDayOfMonth = None THEN ValidDateTime(date)
                           ELSE ByDayOfMonthRuleRun(
                                  [byDayOfMonth |-> byDayOfMonth.array], date))}} : TRUE

\* the end of a pull of Rule._run that found a date:
\* date.generators.unshift(this); yield this.normalizeRunOutput(date)
RuleYieldOutput(this, outcome) ==
  IF ReturnedDate(outcome)
  THEN Returns(normalizeRunOutput(
                 this, [outcome.returns EXCEPT !.generators = <<this.id>> \o @]))
  ELSE outcome

InitNewRule ==
  /\ kind = "newRule"
  /\ NoTraversal
  /\ NoObject

\* the options a program hands to `new Rule`
NewRuleOptions ==
  [frequency     : {"MONTHLY", "WEEKLY", "DAILY", "FORTNIGHTLY"},
   interval      : {None, Number(0), Number(2)},
   byMonthOfYear : {None, Array(<<3>>), Array(<<13>>)},
   byDayOfMonth  : {None, Number(15), Array(<<>>), Array(<<0>>), Array(<<31>>),
                    Array(<<-31>>), Array(<<32>>), Array(<<-1, 15>>)},
   byDayOfWeek   : {None, Array(<<"MO">>)},
   start         : RuleStarts]

RuleConstructorCall ==
  /\ kind = "newRule"
  /\ call = None
  /\ \E options \in NewRuleOptions :
     \E result \in {RuleConstructor(1, options, "undefined")} :
       /\ call' = [method |-> "new", options |-> options]
       /\ returned' = result
       /\ object' = IF result = Throws(RuleOptionError) THEN None ELSE result.returns
       /\ history' = [constructed |-> 1]
  /\ UNCHANGED traversal

\* the rule stays as it is; the program goes on with the rule returned
RuleSetCall ==
  /\ kind = "newRule"
  /\ object # None
  /\ history.constructed < 2
  /\ \E c \in [prop : {"timezone"}, value : {"UTC", "America/Los_Angeles"}]
               \cup [prop : {"byDayOfMonth"},
                     value : {None, Number(15), Array(<<0>>), Array(<<31>>), Array(<<-1, 15>>)}]
               \cup [prop : {"frequency"}, value : {"WEEKLY", "MONTHLY", "FORTNIGHTLY"}]
               \cup [prop : {"interval"}, value : {Number(0), Number(3)}]
               \cup [prop : {"byMonthOfYear"}, value : {Number(3), Array(<<0>>), Array(<<12>>)}]
               \cup [prop : {"options"},
                     value : {[object.options EXCEPT !.byDayOfMonth = Array(<<32>>)],
                              [object.options EXCEPT !.start = DateTime(0)]}] :
     \E result \in {RuleSet(object, c.prop, c.value, 2)} :
       /\ call' = [method |-> "set", prop |-> c.prop, value |-> c.value]
       /\ returned' = result
       /\ object' = IF result = Throws(RuleOptionError) THEN object ELSE result.returns
       /\ gen' = IF result = Throws(RuleOptionError) \/ result = Returns(object)
                 THEN gen ELSE None
       /\ history' = [constructed |-> 2]
  /\ UNCHANGED <<kind, inputA, inputB, args, emitted, lastYieldArgs, wentBack, schedule>>

\* the first pull, one pass at a step; the traversal starts with its first
\* pass, and no pass follows the one that ended the pull, whatever was called
\* on the rule since.  The date the last pass found is stamped with the rule
\* and yielded in the timezone of the rule.
RulePassCall ==
  /\ kind = "newRule"
  /\ object # None
  /\ IF gen = None THEN TRUE ELSE ~gen.over
  /\ \E g \in {IF gen = None
                 THEN [pipe      |-> ResultPipe(None),
                       candidate |-> ValidDateTime(object.processedOptions.start),
                       over      |-> FALSE]
                 ELSE gen} :
     \E after \in {RulePass(object, g)} :
       /\ gen' = after.gen
       /\ returned' = RuleYieldOutput(object, after.outcome)
       /\ call' = [method |-> "next"]
  /\ UNCHANGED <<kind, inputA, inputB, args, emitted, lastYieldArgs, wentBack, schedule,
                 object, history>>

NextNewRule == RuleConstructorCall \/ RuleSetCall \/ RulePassCall

SpecNewRule == InitNewRule /\ [][NextNewRule]_vars

\* ---- mergeDuration and splitDuration over a base stream of dates that have
\* a duration.  Here a duration counts in the unit of the timestamps.
MaxDuration == 3

MergeDurationOperatorError == "MergeDurationOperatorError"

SplitDurationOperatorError == "SplitDurationOperatorError"

\* DateTime.end: undefined when the duration is 0, else the timestamp of
\* this.add(this.duration, 'millisecond')
end(this) == IF this.duration = 0 THEN None ELSE this.t + this.duration

\* the merge going on only while the next date starts before the end reached
MutMergeWhileOverlappingStrict(occurrence, stream, maxDuration) ==
  LET RECURSIVE merge(_, _)
      merge(o, rest) ==
        IF rest = <<>> THEN [stream |-> rest, outcome |-> Returns(o)]
        ELSE IF end(o) <= Head(rest).t THEN [stream |-> rest, outcome |-> Returns(o)]
        ELSE IF Head(rest).duration > maxDuration
        THEN [stream |-> Tail(rest), outcome |-> Throws(MergeDurationOperatorError)]
        ELSE LET merged == IF end(Head(rest)) > end(o)
                           THEN set(o, "duration", end(Head(rest)) - o.t) ELSE o
             IN  IF merged.duration > maxDuration
                 THEN [stream |-> Tail(rest), outcome |-> Throws(MergeDurationOperatorError)]
                 ELSE merge(merged, Tail(rest))
  IN  merge(occurrence, stream)

RECURSIVE MergeWhileOverlapping(_, _, _)
\* the occurrence takes in every following date of the stream that starts at
\* or before its end, and ends where the latest of them ends; an occurrence
\* that grows past maxDuration is an error
MergeWhileOverlapping(occurrence, stream, maxDuration) ==
  IF stream = <<>> THEN [stream |-> stream, outcome |-> Returns(occurrence)]
  ELSE IF end(occurrence) < Head(stream).t
  THEN [stream |-> stream, outcome |-> Returns(occurrence)]
  ELSE IF Head(stream).duration > maxDuration
  THEN [stream |-> Tail(stream), outcome |-> Throws(MergeDurationOperatorError)]
  ELSE LET merged == IF end(Head(stream)) > end(occurrence)
                     THEN set(occurrence, "duration", end(Head(stream)) - occurrence.t)
                     ELSE occurrence
       IN  IF merged.duration > maxDuration
           THEN [stream |-> Tail(stream), outcome |-> Throws(MergeDurationOperatorError)]
           ELSE MergeWhileOverlapping(merged, Tail(stream), maxDuration)

\* one next() of mergeDuration({ maxDuration })({ base })._run()
MergeDurationNext(g) ==
  IF g.stream = <<>> THEN [gen |-> g, outcome |-> Returns(Null)]
  ELSE IF Head(g.stream).duration > g.maxDuration
  THEN [gen     |-> [g EXCEPT !.stream = Tail(g.stream)],
        outcome |-> Throws(MergeDurationOperatorError)]
  ELSE CHOOSE after \in
         {[gen |-> [g EXCEPT !.stream = merged.stream], outcome |-> merged.outcome] :
            merged \in {MergeWhileOverlapping(Head(g.stream), Tail(g.stream),
                                              g.maxDuration)}} : TRUE

\* DateAdapter.MILLISECONDS_IN_HOUR
MillisecondsInHour == 3600000

\* the whole hours the traversals of durations start from and last: there
\* timestamps and durations count milliseconds
Hours(n) == n * MillisecondsInHour

\* the split functions handed to splitDuration: "whole" returns [date];
\* "halves" is the function of the tests, which cuts a date longer than one
\* hour in two pieces of half its duration each (a duration of an odd
\* number of milliseconds has no half a DateTime accepts, and a date without
\* duration has no end to compare with); "units" cuts it into pieces of one
\* hour
SplitFn(name, date) ==
  CASE name = "whole"  -> Returns(<<date>>)
    [] name = "halves" ->
         IF date.duration = 0 THEN Throws(TypeError)
         ELSE IF date.t + MillisecondsInHour < end(date)
         THEN IF date.duration % 2 # 0 THEN Throws(InvalidDateTimeError)
              ELSE Returns(<<set(date, "duration", date.duration \div 2),
                             set(forkDateTime(date, date.t + date.duration \div 2),
                                 "duration", date.duration \div 2)>>)
         ELSE Returns(<<date>>)
    [] name = "units"  ->
         Returns([i \in 1..(date.duration \div MillisecondsInHour) |->
                    set(forkDateTime(date, date.t + Hours(i - 1)), "duration", Hours(1))])

RECURSIVE InsertAllSorted(_, _)
InsertAllSorted(bucket, pieces) ==
  IF pieces = <<>> THEN bucket
  ELSE InsertAllSorted(InsertSorted(bucket, Head(pieces)), Tail(pieces))

\* splitFn applied only to a date longer than maxDuration
MutSplitWhileOverlappingAboveMax(g) ==
  LET RECURSIVE split(_)
      split(h) ==
        IF h.stream = <<>> THEN [gen |-> h, ok |-> TRUE]
        ELSE IF (IF h.bucket = <<>> THEN FALSE ELSE Head(h.stream).t > Head(h.bucket).t)
        THEN [gen |-> h, ok |-> TRUE]
        ELSE LET pieces == IF Head(h.stream).duration > h.maxDuration
                           THEN SplitFn(h.splitFn, Head(h.stream)).returns
                           ELSE <<Head(h.stream)>>
             IN  IF \E i \in 1..Len(pieces) : pieces[i].duration > h.maxDuration
                 THEN [gen |-> [h EXCEPT !.stream = Tail(h.stream)], ok |-> FALSE,
                       error |-> SplitDurationOperatorError]
                 ELSE split([h EXCEPT !.stream = Tail(h.stream),
                                      !.bucket = InsertAllSorted(h.bucket, pieces)])
  IN  split(g)

\* the pieces taken as splitFn returns them, whatever their duration
MutSplitWhileOverlappingUnchecked(g) ==
  LET RECURSIVE split(_)
      split(h) ==
        IF h.stream = <<>> THEN [gen |-> h, ok |-> TRUE]
        ELSE IF (IF h.bucket = <<>> THEN FALSE ELSE Head(h.stream).t > Head(h.bucket).t)
        THEN [gen |-> h, ok |-> TRUE]
        ELSE split([h EXCEPT !.stream = Tail(h.stream),
                             !.bucket = InsertAllSorted(h.bucket,
                                          SplitFn(h.splitFn, Head(h.stream)).returns)])
  IN  split(g)

RECURSIVE SplitWhileOverlapping(_)
\* splitFn is applied to the next date of the stream, as long as that date
\* does not start after the earliest piece waiting; a piece longer than
\* maxDuration is an error, and what splitFn throws ends the traversal
SplitWhileOverlapping(g) ==
  IF g.stream = <<>> THEN [gen |-> g, ok |-> TRUE]
  ELSE IF (IF g.bucket = <<>> THEN FALSE ELSE Head(g.stream).t > Head(g.bucket).t)
  THEN [gen |-> g, ok |-> TRUE]
  ELSE LET split == SplitFn(g.splitFn, Head(g.stream))
       IN  IF "throws" \in DOMAIN split
           THEN [gen |-> [g EXCEPT !.stream = Tail(g.stream)], ok |-> FALSE,
                 error |-> split.throws]
           ELSE IF \E i \in 1..Len(split.returns) :
                     split.returns[i].duration > g.maxDuration
           THEN [gen |-> [g EXCEPT !.stream = Tail(g.stream)], ok |-> FALSE,
                 error |-> SplitDurationOperatorError]
           ELSE SplitWhileOverlapping(
                  [g EXCEPT !.stream = Tail(g.stream),
                            !.bucket = InsertAllSorted(g.bucket, split.returns)])

\* one next() of splitDuration({ maxDuration, splitFn })({ base })._run()
SplitDurationNext(g) ==
  CHOOSE after \in
    {IF ~split.ok THEN [gen |-> split.gen, outcome |-> Throws(split.error)]
     ELSE IF split.gen.bucket = <<>> THEN [gen |-> split.gen, outcome |-> Returns(Null)]
     ELSE [gen     |-> [split.gen EXCEPT !.bucket = Tail(split.gen.bucket)],
           outcome |-> Returns(Head(split.gen.bucket))] :
       split \in {SplitWhileOverlapping(g)}} : TRUE

InitDuration ==
  /\ kind \in {"mergeDuration", "splitDuration", "uniqueDuration"}
  /\ inputA \in SortedSeqsUpTo({NewDateTime(Hours(t), "UTC", Hours(duration), <<>>) :
                                  t \in Timestamps, duration \in 1..MaxDuration}, MaxLen)
  /\ inputB = <<>>
  /\ args = RunArgs(None, None, TakeUndefined, FALSE)
  /\ IF kind = "uniqueDuration"
     THEN gen = UniqueRun(DatesRun(NewDates("A", inputA, "UTC", 0), args), args)
     ELSE \E maxDuration \in {Hours(h) : h \in 1..MaxDuration} :
          \E splitFn \in (IF kind = "splitDuration" THEN {"whole", "halves", "units"}
                          ELSE {"none"}) :
            gen = [stream |-> inputA, bucket |-> <<>>, maxDuration |-> maxDuration,
                   splitFn |-> splitFn]
  /\ emitted = <<>>
  /\ lastYieldArgs = NoYieldArgs
  /\ wentBack = FALSE
  /\ schedule = None
  /\ NoObject

\* the traversal is over once a pull has found it done or has thrown
DurationOver ==
  returned \in {Returns(Null), Throws(MergeDurationOperatorError),
                Throws(SplitDurationOperatorError), Throws(InvalidDateTimeError),
                Throws(TypeError)}

MergeDurationNextCall ==
  /\ kind = "mergeDuration"
  /\ ~DurationOver
  /\ \E after \in {MergeDurationNext(gen)} :
       /\ gen' = after.gen
       /\ returned' = after.outcome
       /\ emitted' = IF after.outcome \in {Returns(Null), Throws(MergeDurationOperatorError)}
                     THEN emitted ELSE Append(emitted, after.outcome.returns)
  /\ UNCHANGED <<kind, inputA, inputB, args, lastYieldArgs, wentBack, schedule,
                 object, call, history>>

SplitDurationNextCall ==
  /\ kind = "splitDuration"
  /\ ~DurationOver
  /\ \E after \in {SplitDurationNext(gen)} :
       /\ gen' = after.gen
       /\ returned' = after.outcome
       /\ emitted' = IF after.outcome = Returns(Null) \/ "throws" \in DOMAIN after.outcome
                     THEN emitted ELSE Append(emitted, after.outcome.returns)
  /\ UNCHANGED <<kind, inputA, inputB, args, lastYieldArgs, wentBack, schedule,
                 object, call, history>>

\* one next() of unique() over a Dates whose dates have durations
UniqueDurationNextCall ==
  /\ kind = "uniqueDuration"
  /\ ~DurationOver
  /\ gen' = GenNext(gen, NoYieldArgs)
  /\ returned' = IF gen'.done THEN Returns(Null) ELSE Returns(gen'.value)
  /\ emitted' = IF gen'.done THEN emitted ELSE Append(emitted, gen'.value)
  /\ UNCHANGED <<kind, inputA, inputB, args, lastYieldArgs, wentBack, schedule,
                 object, call, history>>

NextDuration == MergeDurationNextCall \/ SplitDurationNextCall \/ UniqueDurationNextCall

SpecDuration == InitDuration /\ [][NextDuration]_vars

\* ---- a DateTime written to its JSON form and read back
\* DateTime.toJSON(): the calendar fields of the UTC date; `duration` is left
\* out when it is 0
toJSON(this) ==
  IF this.duration # 0
  THEN [timezone |-> this.timezone, year |-> get(this, "year"),
        month |-> get(this, "month"), day |-> get(this, "day"),
        hour |-> get(this, "hour"), duration |-> this.duration]
  ELSE [timezone |-> this.timezone, year |-> get(this, "year"),
        month |-> get(this, "month"), day |-> get(this, "day"),
        hour |-> get(this, "hour")]

\* DateTime.fromJSON(json): new DateTime(new Date(Date.UTC(json.year,
\* json.month - 1, json.day, json.hour, ...)), json.timezone, json.duration).
\* Date.UTC reads a year from 0 to 99 as 1900 + year.
fromJSON(json) ==
  LET year == IF 0 <= json.year /\ json.year <= 99 THEN 1900 + json.year ELSE json.year
  IN  NewDateTime(DateUTC(year, json.month, json.day, json.hour),
                  json.timezone,
                  IF "duration" \in DOMAIN json THEN json.duration ELSE 0,
                  <<>>)

\* `object` is a DateTime moved to some year by set('year', value)
InitJSON ==
  /\ kind = "JSON"
  /\ NoTraversal
  /\ \E start \in RuleStarts, timezone \in Timezones, duration \in 0..1 :
     \E year \in {-1, 0, 50, 99, 100, 1899, 1970, 2019, 2020} :
       object = set(NewDateTime(start.t, timezone, duration, <<>>), "year", year)
  /\ call = None
  /\ returned = None
  /\ history = None

ToJSONCall ==
  /\ kind = "JSON"
  /\ call = None
  /\ call' = [method |-> "toJSON"]
  /\ returned' = Returns(toJSON(object))
  /\ UNCHANGED <<traversal, object, history>>

FromJSONCall ==
  /\ kind = "JSON"
  /\ call # None /\ call.method = "toJSON"
  /\ call' = [method |-> "fromJSON", json |-> returned.returns]
  /\ returned' = Returns(fromJSON(returned.returns))
  /\ UNCHANGED <<traversal, object, history>>

NextJSON == ToJSONCall \/ FromJSONCall

SpecJSON == InitJSON /\ [][NextJSON]_vars

\* ---- the by-day-of-week stage, called on one candidate
\* An entry of byDayOfWeek is written <<weekday>> or <<weekday, n>>.
\* an ordinal entry counted in the year whatever the options are
MutEntryOnOfYear(options, entry, date) ==
  /\ get(date, "weekday") = entry[1]
  /\ Len(entry) = 2 =>
       (date.t - granularity(date, "year").t) \div (7 * HoursInDay) + 1 = entry[2]

\* the entry falls on the day of `date`: a weekday on each of its days; the
\* nth weekday on the nth such day of the year (YEARLY without byMonthOfYear)
\* or of the month
EntryOn(options, entry, date) ==
  /\ get(date, "weekday") = entry[1]
  /\ Len(entry) = 2 =>
       IF options.frequency = "YEARLY" /\ options.byMonthOfYear = None
       THEN (date.t - granularity(date, "year").t) \div (7 * HoursInDay) + 1 = entry[2]
       ELSE (get(date, "day") - 1) \div 7 + 1 = entry[2]

\* the skipToDate left at the candidate's time of day
MutByDayOfWeekPipeRunSameTime(options, date) ==
  LET after == {n \in 0..371 :
                  \E i \in 1..Len(options.byDayOfWeek) :
                    EntryOn(options, options.byDayOfWeek[i], add(date, n, "day"))}
      next  == CHOOSE n \in after : \A m \in after : n <= m
  IN  IF next = 0 THEN [date |-> date, invalidDate |-> FALSE, skipToDate |-> None]
      ELSE [date |-> date, invalidDate |-> TRUE, skipToDate |-> add(date, next, "day")]

\* ByDayOfWeekPipe.run({ date }): the candidate passes when an entry falls on
\* its day; otherwise it is invalid, with the start of the first later day an
\* entry falls on as skipToDate (looked for up to a year and a week ahead)
ByDayOfWeekPipeRun(options, date) ==
  LET after == {n \in 0..371 :
                  \E i \in 1..Len(options.byDayOfWeek) :
                    EntryOn(options, options.byDayOfWeek[i], add(date, n, "day"))}
      next  == CHOOSE n \in after : \A m \in after : n <= m
  IN  IF next = 0 THEN [date |-> date, invalidDate |-> FALSE, skipToDate |-> None]
      ELSE [date       |-> date,
            invalidDate |-> TRUE,
            skipToDate  |-> granularity(add(date, next, "day"), "day")]

\* `object` is the options of the pipe, `call` the candidate handed to run
InitByDayOfWeek ==
  /\ kind = "ByDayOfWeekPipe"
  /\ NoTraversal
  /\ object \in [frequency     : {"YEARLY", "MONTHLY", "DAILY"},
                  byDayOfWeek   : {<<<<"TU">>>>, <<<<"MO">>>>, <<<<"FR">>, <<"TH">>>>,
                                   <<<<"SA">>, <<"SU">>, <<"WE">>>>},
                  byMonthOfYear : {None, Array(<<2>>), Array(<<1, 5>>)}]
                \cup [frequency     : {"YEARLY", "MONTHLY"},
                      byDayOfWeek   : {<<<<"MO", 3>>>>, <<<<"TU", 1>>>>, <<<<"SU", 5>>>>,
                                       <<<<"FR">>, <<"TH">>, <<"MO", 3>>>>},
                      byMonthOfYear : {Array(<<2>>), Array(<<3>>), Array(<<1, 5>>)}]
                \cup [frequency     : {"YEARLY"},
                      byDayOfWeek   : {<<<<"FR">>, <<"TH">>, <<"MO", 20>>>>, <<<<"MO", 20>>>>},
                      byMonthOfYear : {None}]
  /\ call = None
  /\ returned = None
  /\ history = None

ByDayOfWeekPipeRunCall ==
  /\ kind = "ByDayOfWeekPipe"
  /\ call = None
  /\ \E ymdh \in {<<2019, 1, 1, 2>>, <<2019, 1, 16, 2>>, <<2019, 3, 16, 2>>,
                   <<2019, 3, 18, 0>>, <<2019, 3, 30, 2>>, <<2019, 12, 31, 23>>,
                   <<2020, 2, 29, 12>>} :
     \E date \in {forkDateTime(DateTime(0), DateUTC(ymdh[1], ymdh[2], ymdh[3], ymdh[4]))} :
       /\ call' = [date |-> date]
       /\ returned' = ByDayOfWeekPipeRun(object, date)
  /\ UNCHANGED <<traversal, object, history>>

SpecByDayOfWeek == InitByDayOfWeek /\ [][ByDayOfWeekPipeRunCall]_vars

\* ---- the dates of a Dates, with and without durations, put in order
\* `inputA` is this.datetimes as given, `returned` the array after the sort
InitSort ==
  /\ kind = "sort"
  /\ inputA \in SeqsUpTo({NewDateTime(t, "UTC", duration, <<>>) :
                            t \in Timestamps, duration \in 0..MaxDuration}, MaxLen)
  /\ inputB = <<>>
  /\ args = RunArgs(None, None, TakeUndefined, FALSE)
  /\ gen = None
  /\ emitted = <<>>
  /\ lastYieldArgs = NoYieldArgs
  /\ wentBack = FALSE
  /\ schedule = None
  /\ NoObject

\* let dates = this.datetimes.sort(dateTimeSortComparer)
DatesSortCall ==
  /\ kind = "sort"
  /\ returned = None
  /\ returned' = Returns(SortDateTimes(inputA))
  /\ UNCHANGED <<traversal, object, call, history>>

SpecSort == InitSort /\ [][DatesSortCall]_vars

\* ---- the by-millisecond stage of a reverse traversal.  The timestamps of
\* this stage count milliseconds; a minute, an hour or a day is a whole number
\* of seconds, so the fields above the second play no part.
\* DateAdapter.MILLISECONDS_IN_SECOND
MillisecondsInSecond == 1000

\* get('millisecond'): this.date.getUTCMilliseconds()
getUTCMilliseconds(this) == this.t % MillisecondsInSecond

\* set('millisecond', value): date.setUTCMilliseconds(value)
setUTCMilliseconds(this, value) == forkDateTime(this, this.t - getUTCMilliseconds(this) + value)

\* endGranularity('second'): set('millisecond', 999)
endGranularitySecond(this) == setUTCMilliseconds(this, MillisecondsInSecond - 1)

\* subtract(amount, 'second'): subUTCSeconds(this.date, amount)
subUTCSeconds(this, amount) == forkDateTime(this, this.t - amount * MillisecondsInSecond)

\* the calls a stage ends with: this.nextPipe.run(args) hands the candidate on,
\* this.nextValidDate(args, date) proposes `date` in its place
NextPipeRun(pipeArgs) == [nextPipeRun |-> pipeArgs]

NextValidDate(pipeArgs, date) == [nextValidDate |-> date, args |-> pipeArgs]

\* the stage wrapping round to the first entry within the candidate's second
MutRevByMillisecondOfSecondPipeRunSameSecond(options, pipeArgs) ==
  IF pipeArgs.invalidDate THEN NextPipeRun(pipeArgs)
  ELSE LET date == pipeArgs.date
           currentMillisecond == getUTCMilliseconds(date)
           notAbove == SelectSeq(options.byMillisecondOfSecond,
                                 LAMBDA millisecond : ~(currentMillisecond < millisecond))
       IN  IF notAbove = <<>>
           THEN NextValidDate(pipeArgs, setUTCMilliseconds(endGranularitySecond(date),
                                                       options.byMillisecondOfSecond[1]))
           ELSE IF currentMillisecond = Head(notAbove)
           THEN NextPipeRun([date |-> date])
           ELSE NextValidDate(pipeArgs, setUTCMilliseconds(endGranularitySecond(date),
                                                       Head(notAbove)))

\* RevByMillisecondOfSecondPipe.run(args): the first listed millisecond not
\* above the candidate's decides; when there is none the candidate moves to
\* the first listed millisecond of the second before
RevByMillisecondOfSecondPipeRun(options, pipeArgs) ==
  IF pipeArgs.invalidDate THEN NextPipeRun(pipeArgs)
  ELSE LET date == pipeArgs.date
           currentMillisecond == getUTCMilliseconds(date)
           notAbove == SelectSeq(options.byMillisecondOfSecond,
                                 LAMBDA millisecond : ~(currentMillisecond < millisecond))
       IN  IF notAbove = <<>>
           THEN NextValidDate(pipeArgs,
                              setUTCMilliseconds(subUTCSeconds(endGranularitySecond(date), 1),
                                                 options.byMillisecondOfSecond[1]))
           ELSE IF currentMillisecond = Head(notAbove)
           THEN NextPipeRun([date |-> date])
           ELSE NextValidDate(pipeArgs, setUTCMilliseconds(endGranularitySecond(date),
                                                       Head(notAbove)))

\* `object` is the options of the stage, `call` the args handed to run; the
\* lists are in descending order, as the reverse pipes are given them
InitRevByMillisecondOfSecond ==
  /\ kind = "RevByMillisecondOfSecondPipe"
  /\ NoTraversal
  /\ object \in [byMillisecondOfSecond :
                   {<<0>>, <<999>>, <<500>>, <<500, 250>>, <<999, 0>>, <<998, 501, 1>>}]
  /\ call = None
  /\ returned = None
  /\ history = None

RevByMillisecondOfSecondPipeRunCall ==
  /\ kind = "RevByMillisecondOfSecondPipe"
  /\ call = None
  /\ \E second \in {0, 1, 59, 60, 3600} :
     \E millisecond \in {0, 1, 250, 251, 500, 501, 998, 999} :
     \E invalidDate \in BOOLEAN :
       /\ call' = PipeRunArgs(DateTime(second * MillisecondsInSecond + millisecond), invalidDate)
       /\ returned' = RevByMillisecondOfSecondPipeRun(object, call')
  /\ UNCHANGED <<traversal, object, history>>

SpecRevByMillisecondOfSecond ==
  InitRevByMillisecondOfSecond /\ [][RevByMillisecondOfSecondPipeRunCall]_vars

\* ---- traversals of one Dates object, one after the other, and the
\* generators array of the dates they yield
MaxTraversals == 2

\* new Dates({ dates }): each DateTime of the private array `datetimes` is an
\* object of its own, named by `ref`; `generators[ref]` is the generators
\* array that object holds now
NewDatesOfObjects(id, dates) ==
  LET made == NewDates(id, dates, "UTC", 0)
  IN  [class      |-> "Dates",
       id         |-> id,
       timezone   |-> made.timezone,
       datetimes  |-> [i \in 1..Len(dates) |->
                         [t |-> made.datetimes[i].t, timezone |-> made.datetimes[i].timezone,
                          duration |-> made.datetimes[i].duration, generators |-> <<>>,
                          ref |-> i]],
       generators |-> [i \in 1..Len(dates) |-> <<>>]]

\* The statement before the yield.
\*   unnamed/part_011:          date.generators.unshift(this)
\*     the DateTime of this.datetimes itself gets the entry, and is yielded
\*   core/generators/dates.ts:  date = date.add(this, 'generator')
\*     a new DateTime is yielded, the one of this.datetimes is left alone
\* normalizeRunOutput returns the date it is given: its timezone is the
\* timezone of the object.
DatesStamp(version, this, date) ==
  LET held == [date EXCEPT !.generators = this.generators[date.ref]]
  IN  IF version = "unnamed/part_011"
      THEN [this  |-> [this EXCEPT !.generators[date.ref] = <<this.id>> \o @],
            value |-> [held EXCEPT !.generators = <<this.id>> \o @]]
      ELSE [this  |-> this,
            value |-> add(held, this.id, "generator")]

\* One next(yieldArgs) on a traversal of `this`: the first one sorts
\* this.datetimes in place and builds `dates` from it.
DatesStampedNext(version, this, g, yieldArgs) ==
  LET sorted   == SortDateTimes(this.datetimes)
      thisNow  == IF g.inner = None THEN [this EXCEPT !.datetimes = sorted] ELSE this
      inner    == IF g.inner = None
                  THEN DatesShift(DatesRun(thisNow, g.args), yieldArgs)
                  ELSE DatesShift(g.inner, yieldArgs)
  IN  IF inner.done
      THEN [this |-> thisNow, gen |-> [g EXCEPT !.inner = inner]]
      ELSE LET stamped == DatesStamp(version, thisNow, inner.value)
           IN  [this |-> stamped.this,
                gen  |-> [g EXCEPT !.inner = [inner EXCEPT !.value = stamped.value]]]

\* `history` counts the traversals begun and remembers whether some date
\* was yielded a second time within one traversal
InitGenerators ==
  /\ kind \in {"unnamed/part_011", "core/generators/dates.ts"}
  /\ inputA \in SeqsUpTo(DateTimes, MaxDates)
  /\ inputB = <<>>
  /\ args \in TraversalArgs
  /\ gen = ObjectRun(args)
  /\ emitted = <<>>
  /\ lastYieldArgs = NoYieldArgs
  /\ wentBack = FALSE
  /\ schedule = None
  /\ object = NewDatesOfObjects(1, inputA)
  /\ call = None
  /\ returned = None
  /\ history = [traversals |-> 1, reread |-> FALSE]

\* the values the consumer has received so far, as they are after a stamp:
\* under unnamed/part_011 a value received is the DateTime of this.datetimes
\* itself, so it shows every entry that DateTime has been given since
Received(version, this, values) ==
  IF version = "unnamed/part_011"
  THEN [i \in 1..Len(values) |->
          [values[i] EXCEPT !.generators = this.generators[values[i].ref]]]
  ELSE values

\* iterator.next(yieldArgs) on the traversal under way
GeneratorsPull ==
  /\ kind \in {"unnamed/part_011", "core/generators/dates.ts"}
  /\ IF gen.inner = None THEN TRUE ELSE ~gen.inner.done
  /\ Len(emitted) < MaxPulls - 1
  /\ \E skipToDate \in (IF gen.inner = None THEN {None} ELSE OptionalDateTimes) :
       \E after \in {DatesStampedNext(kind, object, gen, YieldArgs(skipToDate))} :
         /\ object' = after.this
         /\ gen' = after.gen
         /\ emitted' = IF after.gen.inner.done THEN emitted
                       ELSE Append(Received(kind, after.this, emitted),
                                   after.gen.inner.value)
         /\ lastYieldArgs' = YieldArgs(skipToDate)
         /\ history' = [history EXCEPT !.reread =
                          IF after.gen.inner.done THEN @
                          ELSE IF \E i \in 1..Len(emitted) :
                                    emitted[i].t = after.gen.inner.value.t
                               THEN TRUE ELSE @]
  /\ UNCHANGED <<kind, inputA, inputB, args, wentBack, schedule, call, returned>>

\* the consumer leaves the traversal where it is and calls _run(args) again
GeneratorsRun ==
  /\ kind \in {"unnamed/part_011", "core/generators/dates.ts"}
  /\ history.traversals < MaxTraversals
  /\ gen.inner # None
  /\ \E runArgs \in TraversalArgs :
       /\ args' = runArgs
       /\ gen' = ObjectRun(runArgs)
  /\ emitted' = <<>>
  /\ lastYieldArgs' = NoYieldArgs
  /\ history' = [traversals |-> history.traversals + 1, reread |-> FALSE]
  /\ UNCHANGED <<kind, inputA, inputB, wentBack, schedule, object, call, returned>>

NextGenerators == GeneratorsPull \/ GeneratorsRun

SpecGenerators == InitGenerators /\ [][NextGenerators]_vars

\* ---- two traversals of one Dates object, their pulls interleaved: of a
\* Dates of core/generators/dates.ts, and of a Dates of unnamed/part_011,
\* whose _run stamps the DateTime objects the traversals share.
\* `history` follows, for each traversal, a copy of the object that this
\* traversal has to itself
StampsInPlace(this) == "generators" \in DOMAIN this

TraversalNext(this, g, yieldArgs) ==
  IF StampsInPlace(this)
  THEN DatesStampedNext("unnamed/part_011", this, g, yieldArgs)
  ELSE ObjectNext(this, g, yieldArgs)

\* the values a consumer holds, as they are once `this` has been stamped:
\* under unnamed/part_011 they are the DateTime objects of this.datetimes
\* themselves, whichever traversal yielded them
TraversalReceived(this, values) ==
  IF StampsInPlace(this) THEN Received("unnamed/part_011", this, values) ELSE values

InitTraversals ==
  /\ kind = "Traversals"
  /\ inputA = <<>>
  /\ inputB = <<>>
  /\ args \in TraversalArgs \X TraversalArgs
  /\ gen = <<ObjectRun(args[1]), ObjectRun(args[2])>>
  /\ emitted = <<<<>>, <<>>>>
  /\ lastYieldArgs = NoYieldArgs
  /\ wentBack = FALSE
  /\ schedule = None
  /\ object \in {o \in Objects : o.class = "Dates"}
                  \cup {NewDatesOfObjects(1, dates) : dates \in SeqsUpTo(DateTimes, MaxDates)}
  /\ call = None
  /\ returned = None
  /\ history = [i \in 1..2 |-> [this |-> object, gen |-> gen[i], emitted |-> <<>>]]

TraversalPull ==
  /\ kind = "Traversals"
  /\ \E i \in 1..2 :
       /\ IF gen[i].inner = None THEN TRUE ELSE ~gen[i].inner.done
       /\ Len(emitted[i]) < MaxPulls - 2
       /\ \E skipToDate \in (IF gen[i].inner = None THEN {None} ELSE OptionalDateTimes) :
            \E after \in {TraversalNext(object, gen[i], YieldArgs(skipToDate))} :
            \E alone \in {TraversalNext(history[i].this, history[i].gen,
                                        YieldArgs(skipToDate))} :
            LET yield(g, sofar) == IF g.inner.done THEN sofar ELSE Append(sofar, g.inner.value)
            IN  /\ object' = after.this
                /\ gen' = [gen EXCEPT ![i] = after.gen]
                /\ emitted' = [j \in 1..2 |->
                                TraversalReceived(after.this,
                                                  IF j = i THEN yield(after.gen, emitted[j])
                                                  ELSE emitted[j])]
                /\ lastYieldArgs' = YieldArgs(skipToDate)
                /\ history' = [history EXCEPT ![i] =
                                 [this    |-> alone.this,
                                  gen     |-> alone.gen,
                                  emitted |-> TraversalReceived(
                                                alone.this,
                                                yield(alone.gen, history[i].emitted))]]
  /\ UNCHANGED <<kind, inputA, inputB, args, wentBack, schedule, call, returned>>

SpecTraversals == InitTraversals /\ [][TraversalPull]_vars

\* ---- Schedule._run over a cache of iterators (lib/schedule/schedule.ts)
\* iterator.next().value on a cache object: `rest` is what the iterator has
\* still to give
IteratorNextValue(cacheObj) ==
  IF cacheObj.rest = <<>> THEN [date |-> None, rest |-> <<>>]
  ELSE [date |-> Head(cacheObj.rest), rest |-> Tail(cacheObj.rest)]

RECURSIVE dateIsInExDates(_, _, _)
\* the for loop over exdates: true at an equal exdate, left at the first
\* exdate the date is after (before, in reverse)
dateIsInExDates(date, exdates, reverse) ==
  IF exdates = <<>> THEN FALSE
  ELSE IF isEqual(date, Head(exdates)) THEN TRUE
  ELSE IF (IF reverse THEN isBefore(date, Head(exdates)) ELSE isAfter(date, Head(exdates)))
  THEN FALSE
  ELSE dateIsInExDates(date, Tail(exdates), reverse)

\* Utils.sortDates(this.exdates.dates.slice()), then
\* `if (!args.reverse) exdates.reverse()`
ExdatesInOrder(exdates, reverse) ==
  IF reverse THEN SortDateTimes(exdates) ELSE Reverse(SortDateTimes(exdates))

RECURSIVE getNextDateThatIsNotInExdates(_, _, _)
\* the cache object moved on while its date is an exdate
getNextDateThatIsNotInExdates(cacheObj, exdates, reverse) ==
  IF cacheObj.date # None /\ dateIsInExDates(cacheObj.date, exdates, reverse)
  THEN getNextDateThatIsNotInExdates(IteratorNextValue(cacheObj), exdates, reverse)
  ELSE cacheObj

RECURSIVE removePastExDates(_, _, _)
\* the exdates collected before the loop breaks are the leading ones the
\* date is after (before, in reverse); they are spliced out
removePastExDates(date, exdates, reverse) ==
  IF date = None \/ exdates = <<>> THEN exdates
  ELSE IF (IF reverse THEN isAfterOrEqual(date, Head(exdates))
                      ELSE isBeforeOrEqual(date, Head(exdates)))
  THEN exdates
  ELSE removePastExDates(date, Tail(exdates), reverse)

RECURSIVE getFirstIteratorCacheObj(_, _, _, _)
\* `objects` holds the cache objects by identity, `cache` the identities in
\* the array; cache.shift() works on the array of _run itself
getFirstIteratorCacheObj(objects, cache, exdates, reverse) ==
  LET first   == cache[1]
      moved   == getNextDateThatIsNotInExdates(objects[first], exdates, reverse)
      objects1 == [objects EXCEPT ![first] = moved]
  IN  IF moved.date = None /\ Len(cache) > 1
      THEN getFirstIteratorCacheObj(objects1, Tail(cache), exdates, reverse)
      ELSE [objects |-> objects1,
            cache   |-> cache,
            first   |-> IF moved.date = None THEN 0 ELSE first,
            exdates |-> IF moved.date = None THEN exdates
                        ELSE removePastExDates(moved.date, exdates, reverse)]

RECURSIVE CacheReduce(_, _, _, _, _, _)
\* cache.reduce((prev, curr) => ..., next) over the cache without `next`
CacheReduce(objects, others, prev, mustFilter, exdates, reverse) ==
  IF others = <<>> THEN [objects |-> objects, next |-> prev, mustFilter |-> mustFilter]
  ELSE LET curr     == Head(others)
           moved    == getNextDateThatIsNotInExdates(objects[curr], exdates, reverse)
           objects1 == [objects EXCEPT ![curr] = moved]
       IN  IF moved.date = None
           THEN CacheReduce(objects1, Tail(others), prev, mustFilter, exdates, reverse)
           ELSE IF (IF reverse THEN isAfter(moved.date, objects1[prev].date)
                               ELSE isBefore(moved.date, objects1[prev].date))
           THEN CacheReduce(objects1, Tail(others), curr, mustFilter, exdates, reverse)
           ELSE IF isEqual(moved.date, objects1[prev].date)
           THEN CacheReduce([objects1 EXCEPT ![curr] = IteratorNextValue(moved)],
                            Tail(others), prev, TRUE, exdates, reverse)
           ELSE CacheReduce(objects1, Tail(others), prev, mustFilter, exdates, reverse)

\* getNextIteratorCacheObj keeping `next` without looking at the rest of the
\* cache
MutGetNextIteratorCacheObjKeepsEqual(objects, next, cache, exdates, reverse) ==
  [objects |-> objects, next |-> next, mustFilter |-> FALSE, exdates |-> exdates]

\* getNextIteratorCacheObj(next, cache, exdates, reverse)
getNextIteratorCacheObj(objects, next, cache, exdates, reverse) ==
  IF Len(cache) = 1
  THEN LET moved == getNextDateThatIsNotInExdates(objects[cache[1]], exdates, reverse)
       IN  [objects    |-> [objects EXCEPT ![cache[1]] = moved],
            next       |-> cache[1],
            mustFilter |-> FALSE,
            exdates    |-> removePastExDates(moved.date, exdates, reverse)]
  ELSE LET reduced == CacheReduce(objects, SelectSeq(cache, LAMBDA item : item # next),
                                  next, FALSE, exdates, reverse)
       IN  [objects    |-> reduced.objects,
            next       |-> reduced.next,
            mustFilter |-> reduced.mustFilter,
            exdates    |-> removePastExDates(reduced.objects[reduced.next].date,
                                             exdates, reverse)]

\* what _run leaves behind when it returns
IteratorCacheDone(g) == [g EXCEPT !.pc = "done", !.done = TRUE, !.value = None]

\* the head of the while loop: yield next.date, or leave the loop
IteratorCacheLoop(g) ==
  IF g.objects[g.next].date # None /\ (g.take = TakeUndefined \/ g.take > g.index)
  THEN [g EXCEPT !.pc = "yield", !.value = g.objects[g.next].date]
  ELSE IteratorCacheDone(g)

\* Schedule._run(args) before its first next(); `iterators` are the
\* occurrences of the rrules and, last, of the rdates
IteratorCacheRun(iterators, exdates, runArgs) ==
  [kind       |-> "iteratorCache",
   objects    |-> [i \in 1..Len(iterators) |->
                     IteratorNextValue([date |-> None, rest |-> iterators[i]])],
   cache      |-> <<>>,
   exdates    |-> ExdatesInOrder(exdates, runArgs.reverse),
   reverse    |-> runArgs.reverse,
   take       |-> runArgs.take,
   next       |-> 0,
   mustFilter |-> FALSE,
   index      |-> 0,
   pc         |-> "start",
   done       |-> FALSE,
   value      |-> None]

\* One next() on the traversal.
IteratorCacheNext(g) ==
  IF g.pc = "done" THEN g
  ELSE IF g.pc = "start"
  THEN LET cache == SelectSeq([i \in 1..Len(g.objects) |-> i],
                              LAMBDA i : g.objects[i].date # None)
       IN  IF cache = <<>> THEN IteratorCacheDone(g)
           ELSE LET first == getFirstIteratorCacheObj(g.objects, cache, g.exdates, g.reverse)
                IN  IF first.first = 0
                    THEN IteratorCacheDone([g EXCEPT !.objects = first.objects,
                                                     !.cache = first.cache])
                    ELSE LET got == getNextIteratorCacheObj(first.objects, first.first,
                                                            first.cache, first.exdates,
                                                            g.reverse)
                         IN  IteratorCacheLoop([g EXCEPT !.objects = got.objects,
                                                         !.cache = first.cache,
                                                         !.exdates = got.exdates,
                                                         !.next = got.next,
                                                         !.mustFilter = got.mustFilter])
  ELSE LET moved    == getNextDateThatIsNotInExdates(IteratorNextValue(g.objects[g.next]),
                                                     g.exdates, g.reverse)
           objects1 == [g.objects EXCEPT ![g.next] = moved]
           refilter == moved.date = None \/ g.mustFilter
           cache1   == IF refilter
                       THEN SelectSeq(g.cache, LAMBDA i : objects1[i].date # None)
                       ELSE g.cache
       IN  IF refilter /\ cache1 = <<>>
           THEN IteratorCacheDone([g EXCEPT !.objects = objects1, !.cache = cache1])
           ELSE LET got == getNextIteratorCacheObj(objects1,
                                                   IF refilter THEN cache1[1] ELSE g.next,
                                                   cache1, g.exdates, g.reverse)
                IN  IteratorCacheLoop([g EXCEPT !.objects = got.objects,
                                                !.cache = cache1,
                                                !.exdates = got.exdates,
                                                !.next = got.next,
                                                !.mustFilter = got.mustFilter,
                                                !.index = g.index + 1])

\* what an iterator of the cache gives, in the direction of the traversal
OccurrencesInOrder(reverse) ==
  {IF reverse THEN Reverse(s) ELSE s : s \in RuleOccurrences}

\* `inputA` holds what the occurrences(args) of each rrule and of the rdates
\* give, `inputB` the exdates
InitIteratorCache ==
  /\ kind = "iteratorCache"
  /\ args \in {RunArgs(None, None, t, r) : t \in {TakeUndefined} \cup 0..MaxTake, r \in BOOLEAN}
  /\ inputA \in UNION {[1..(n + 1) -> OccurrencesInOrder(args.reverse)] : n \in 0..MaxRRules}
  /\ \A i \in 1..Len(inputA) : args.take \in {TakeUndefined, 0} \/ Len(inputA[i]) <= args.take
  /\ inputB \in {Reverse(e) : e \in SortedSeqsUpTo(DateTimes, MaxDates)}
  /\ gen = IteratorCacheRun(inputA, inputB, args)
  /\ emitted = <<>>
  /\ lastYieldArgs = NoYieldArgs
  /\ wentBack = FALSE
  /\ schedule = None
  /\ NoObject

IteratorCacheNextCall ==
  /\ kind = "iteratorCache"
  /\ ~gen.done
  /\ gen' = IteratorCacheNext(gen)
  /\ emitted' = IF gen'.done THEN emitted ELSE Append(emitted, gen'.value)
  /\ UNCHANGED <<kind, inputA, inputB, args, lastYieldArgs, wentBack, schedule,
                 object, call, returned, history>>

SpecIteratorCache == InitIteratorCache /\ [][IteratorCacheNextCall]_vars

\* ------------------------------------------------- vocabulary of the claims
\* timestamps of a sequence of dates
Instants(s) == {s[i].t : i \in 1..Len(s)}

\* how often instant t occurs in s
Count(s, t) == Cardinality({i \in 1..Len(s) : s[i].t = t})

\* start <= d <= end, for the bounds that are given
InWindow(d, a) ==
  /\ a.start # None => d.t >= a.start.t
  /\ a.end # None => d.t <= a.end.t

\* the occurrences of a sorted source inside the window, in traversal order
Windowed(s, a) ==
  LET w == SelectSeq(s, LAMBDA d : InWindow(d, a))
  IN  IF a.reverse THEN [i \in 1..Len(w) |-> w[Len(w) + 1 - i]] ELSE w

\* b does not come before a in the direction of the traversal
InOrder(a, b) == IF args.reverse THEN a.t >= b.t ELSE a.t <= b.t

StrictlyInOrder(a, b) == IF args.reverse THEN a.t > b.t ELSE a.t < b.t

Unbounded == [args EXCEPT !.start = None, !.end = None]

\* a date of a source as the generator `id` hands it out: the same instant,
\* timezone and duration, with the generator as its one entry of generators
From(id, d) ==
  [t |-> d.t, timezone |-> d.timezone, duration |-> d.duration, generators |-> <<id>>]

AllFrom(id, s) == [i \in 1..Len(s) |-> From(id, s[i])]

\* the first date of every instant of s, in the order of s
Distinct(s) ==
  LET first == {i \in 1..Len(s) : \A j \in 1..(i - 1) : s[j].t # s[i].t}
      place(n) == CHOOSE i \in first : Cardinality({j \in first : j < i}) = n - 1
  IN  [n \in 1..Cardinality(first) |-> s[place(n)]]

\* the instants at which a rule of start, interval and end occurs
OccurrenceTimes(options) ==
  {t \in options.start.t..options.end.t : (t - options.start.t) % options.interval = 0}

Done == gen.done

\* ---------------------------------------------------------------- claims

C2_SkipKeepsOrder ==
  kind = "dates" =>
    \A i \in 1..Len(emitted) : \A j \in i..Len(emitted) : InOrder(emitted[i], emitted[j])

\* C2 (amended): as long as no resume names a skipToDate before (after, in
\* reverse) the value just emitted, no value emitted by a Dates traversal is
\* before (after) a value emitted earlier.
C2_ForwardSkipKeepsOrder ==
  (kind = "dates" /\ ~wentBack) =>
    \A i \in 1..Len(emitted) : \A j \in i..Len(emitted) : InOrder(emitted[i], emitted[j])

C2_Witness ==
  /\ kind = "dates" /\ ~wentBack /\ Len(emitted) >= 3
  /\ lastYieldArgs.skipToDate # None
  /\ lastYieldArgs.skipToDate.t = emitted[Len(emitted) - 1].t
  /\ emitted[Len(emitted)].t = emitted[Len(emitted) - 1].t
  /\ emitted[1].t # emitted[Len(emitted)].t

\* C3: a Dates traversal resumed with skipToDate X emits next the first date,
\* in traversal order, of the bounded list it walks (`dates`) that is >= X
\* (<= X in reverse), and is exhausted when the list holds no such date.
C3_SkipToFirstAtOrAfter ==
  (kind = "dates" /\ lastYieldArgs.skipToDate # None) =>
    LET X    == lastYieldArgs.skipToDate
        hits == {i \in 1..Len(gen.dates) :
                   IF args.reverse THEN gen.dates[i].t <= X.t ELSE gen.dates[i].t >= X.t}
    IN  IF hits = {} THEN Done
        ELSE /\ ~Done
             /\ \E i \in hits : /\ \A j \in hits : i <= j
                               /\ emitted[Len(emitted)] = From("A", gen.dates[i])

C3_Witness ==
  /\ kind = "dates" /\ ~args.reverse /\ ~Done /\ Len(emitted) >= 2
  /\ lastYieldArgs.skipToDate # None
  /\ emitted[Len(emitted)].t >= lastYieldArgs.skipToDate.t
  /\ \E i \in 1..Len(gen.dates) :
       /\ gen.dates[i].t > emitted[Len(emitted) - 1].t
       /\ gen.dates[i].t < lastYieldArgs.skipToDate.t

\* C4 (as stated): a traversal started with take emits at most take values,
\* whatever resume instructions it receives.
C4_TakeBoundsEmitted ==
  LET take == IF kind = "schedule" THEN gen.count ELSE args.take
  IN  take # TakeUndefined => Len(emitted) <= take

\* C5: the sequence emitted with {start, end} is the sequence emitted without
\* bounds restricted to start <= d <= end, in the same order.
C5_BoundedWindow ==
  Done =>
    emitted = SelectSeq(Occurrences(Run(kind, inputA, inputB, Unbounded)),
                        LAMBDA d : InWindow(d, args))

C5_Witness ==
  /\ Done /\ kind = "intersection" /\ args.reverse
  /\ args.start # None /\ args.end # None
  /\ Len(emitted) >= 2
  /\ Len(emitted) < Len(Occurrences(Run(kind, inputA, inputB, Unbounded)))

\* C6: add(A, B) emits |A| + |B| values, every occurrence of both inputs,
\* in merged sorted order.
C6_UnionCardinality ==
  (Done /\ kind = "add") =>
    LET A == Windowed(inputA, args)
        B == Windowed(inputB, args)
    IN  /\ Len(emitted) = Len(A) + Len(B)
        /\ \A t \in Timestamps : Count(emitted, t) = Count(A, t) + Count(B, t)
        /\ \A i \in 1..(Len(emitted) - 1) : InOrder(emitted[i], emitted[i + 1])

C6_Witness ==
  /\ Done /\ kind = "add" /\ Len(emitted) = 4
  /\ Len(inputA) = 2 /\ Len(inputB) = 2
  /\ \E t \in Timestamps : Count(emitted, t) = 3

\* C7: subtract over base A emits exactly the occurrences of A, in A's order
\* and multiplicity, whose instant is no occurrence of a subtracted stream;
\* without a base it emits nothing.
C7_Difference ==
  /\ (Done /\ kind = "subtract") =>
       emitted = AllFrom("A", SelectSeq(Windowed(inputA, args),
                                        LAMBDA d : d.t \notin Instants(inputB)))
  /\ kind = "subtractNoBase" => emitted = <<>>

C7_Witness ==
  /\ Done /\ kind = "subtract"
  /\ \E t \in Timestamps : Count(inputA, t) = 2 /\ Count(inputB, t) = 1 /\ InWindow(DateTime(t), args)
  /\ Len(emitted) = 1

\* C8: intersection emits, in sorted order and with their multiplicity, the
\* occurrences of all streams whose instant is in every stream, and nothing
\* else; a single stream is emitted unchanged.
C8_Intersection ==
  /\ (Done /\ kind = "intersection") =>
       LET A == Windowed(inputA, args)
           B == Windowed(inputB, args)
       IN  /\ \A t \in Timestamps :
                Count(emitted, t) = IF t \in Instants(A) \cap Instants(B)
                                    THEN Count(A, t) + Count(B, t) ELSE 0
           /\ \A i \in 1..(Len(emitted) - 1) : InOrder(emitted[i], emitted[i + 1])
  /\ (Done /\ kind = "intersection1") => emitted = AllFrom("A", Windowed(inputA, args))

C8_Witness ==
  /\ Done /\ kind = "intersection" /\ Len(emitted) = 3
  /\ Len(inputA) = 2 /\ Len(inputB) = 2
  /\ Cardinality(Instants(inputA) \cup Instants(inputB)) = 2

\* C9: unique emits each distinct instant of its sorted base exactly once, in
\* the base's order.
C9_Unique ==
  (Done /\ kind \in {"unique", "uniqueAdd"}) =>
    /\ Instants(emitted) = Instants(Windowed(inputA, args)) \cup Instants(Windowed(inputB, args))
    /\ \A i \in 1..(Len(emitted) - 1) : StrictlyInOrder(emitted[i], emitted[i + 1])

C9_Witness ==
  /\ Done /\ kind = "unique" /\ args.reverse /\ Len(emitted) = 2
  /\ Len(Windowed(inputA, args)) = 3

\* C10: unique applied to unique(S) emits the sequence unique(S) emits: both
\* emit the first date of every instant of S, in the order of S.
C10_UniqueIdempotent ==
  (Done /\ kind \in {"unique", "unique2"}) =>
    emitted = AllFrom("A", Distinct(Windowed(inputA, args)))

C10_Witness ==
  /\ Done /\ kind = "unique2" /\ Len(emitted) = 1
  /\ Len(Windowed(inputA, args)) = 3

\* C11: for sorted A and B, add over (A with B subtracted) and
\* intersection(A, B) emits exactly the instants of A.
C11_DifferencePlusIntersection ==
  (Done /\ kind = "reunion") => Instants(emitted) = Instants(Windowed(inputA, args))

C11_Witness ==
  /\ Done /\ kind = "reunion"
  /\ Instants(inputA) \cap Instants(inputB) # {}
  /\ Instants(inputA) \ Instants(inputB) # {}
  /\ Instants(inputB) \ Instants(inputA) # {}
  /\ Len(emitted) > Len(inputA)

\* C12: a Schedule emits t iff ((some rrule produces t and no exrule does) or
\* t is an rdate) and t is no exdate, each such t once and in sorted order.
C12_SchedulePrecedence ==
  Done =>
    LET In(list) == UNION {OccurrenceTimes(list[i]) : i \in 1..Len(list)}
        expected == (((In(schedule.rrules) \ In(schedule.exrules))
                       \cup Instants(schedule.rdates))
                     \ Instants(schedule.exdates))
    IN  /\ Instants(emitted) = expected
        /\ \A i \in 1..(Len(emitted) - 1) : StrictlyInOrder(emitted[i], emitted[i + 1])

C12_Witness ==
  /\ Done /\ Len(emitted) = 2
  /\ Len(schedule.rrules) = 2 /\ Len(schedule.exrules) = 2
  /\ \E t \in Instants(emitted) :
       /\ t \notin OccurrenceTimes(schedule.rrules[1])
       /\ t \in OccurrenceTimes(schedule.rrules[2])
       /\ t \notin OccurrenceTimes(schedule.exrules[1])
       /\ t \in OccurrenceTimes(schedule.exrules[2])
       /\ t \in Instants(schedule.rdates)
  /\ \E t \in Timestamps \ Instants(emitted) :
       /\ t \in OccurrenceTimes(schedule.rrules[1]) /\ t \in Instants(schedule.rdates)
       /\ t \in Instants(schedule.exdates)
  /\ \E t \in Instants(emitted) :
       /\ t \in OccurrenceTimes(schedule.rrules[1])
       /\ t \notin OccurrenceTimes(schedule.exrules[1]) \cup OccurrenceTimes(schedule.exrules[2])

\* C13: within one rule iteration ResultPipe.run raises PipeError exactly when
\* more than 50 candidates flagged invalid have been processed in a row, never
\* at 50 or fewer, and a valid candidate it returns brings the count back to 0.
C13_InvalidIterationLimit ==
  kind = "ResultPipe" =>
    /\ returned = Throws(PipeError) <=>
          (object.invalidIterationCount > InvalidIterationLimit)
    /\ ~IterationOver => object.invalidIterationCount = history.invalidInARow
    /\ returned = Throws(PipeError) => history.invalidInARow = InvalidIterationLimit + 1
    /\ (call # None /\ ~call.invalidDate /\ ~IterationOver) =>
          object.invalidIterationCount = 0

C13_Witness ==
  /\ kind = "ResultPipe"
  /\ returned = Throws(PipeError)
  /\ object.previousIterationDate # None
  /\ history.invalidInARow = InvalidIterationLimit + 1

\* no listed month ever holds a listed day
Unsatisfiable(options) ==
  \A i \in 1..Len(options.byMonthOfYear) : \A j \in 1..Len(options.byDayOfMonth) :
    LET month == options.byMonthOfYear[i]
        day   == options.byDayOfMonth[j]
    IN  day > (IF month = 2 THEN 29 ELSE monthLength(month, EpochYear))

\* C14: the first pull of a rule without end whose byDayOfMonth and
\* byMonthOfYear can never hold together takes no more passes through the
\* pipes than the limit allows: the pass that brings the count past the limit
\* raises PipeError, and the pull ends in no other way.
C14_NonConvergenceRaised ==
  (kind = "Rule" /\ Unsatisfiable(object.options)) =>
    /\ history.iterations <= InvalidIterationLimit + 1
    /\ history.iterations = InvalidIterationLimit + 1 => PullOver
    /\ PullOver => returned = Throws(PipeError)

C14_Witness ==
  /\ kind = "Rule"
  /\ object.options.byDayOfMonth = <<31>> /\ object.options.byMonthOfYear = <<2>>
  /\ returned = Throws(PipeError)
  /\ history.iterations = InvalidIterationLimit + 1
  /\ get(call.date, "year") > EpochYear + 20

RECURSIVE GCD(_, _)
GCD(a, b) == IF b = 0 THEN a ELSE GCD(b, a % b)

\* the two rules never occur at the same instant
NoCommonOccurrence ==
  (inputA.start.t - inputB.start.t) % GCD(inputA.interval, inputB.interval) # 0

\* C15: every pull on an intersection of two endless rules ends.  A pull
\* makes no more than maxFailedIterations realignments for its candidate; on
\* rules without a common occurrence it uses them up and then fails with the
\* operator's error, having emitted nothing and having read each input no
\* further than one interval per realignment.  The attempts of a pull add up
\* to the one next() of the operator.
C15_IntersectionGivesUp ==
  kind = "intersectionOfRules" =>
    /\ history.realignments <= gen.maxFailedIterations
    /\ returned = Throws(IntersectionOperatorError) =>
         /\ gen.done
         /\ history.realignments = gen.maxFailedIterations
    /\ (NoCommonOccurrence /\ gen.pc # "start") =>
         /\ emitted = <<>>
         /\ gen.pc # "cycling" => returned = Throws(IntersectionOperatorError)
         /\ \A i \in 1..2 :
              /\ ~gen.streams[i].done
              /\ gen.streams[i].value.t <= MaxT + (history.realignments + 1) * MaxInterval
    /\ gen.pc \in {"yield", "done", "failed"} =>
         gen = IntersectionNext(history.pulled, NoYieldArgs)

C15_Witness ==
  /\ kind = "intersectionOfRules" /\ NoCommonOccurrence
  /\ returned = Throws(IntersectionOperatorError)
  /\ gen.maxFailedIterations = MaxFailedIterations
  /\ history.realignments = MaxFailedIterations
  /\ inputA.interval = 2 /\ inputB.interval = 2
  /\ gen.streams[1].value.t > MaxFailedIterations

\* C16: a comparison of two DateTimes raises InvalidDateTimeError when their
\* timezone labels differ and never returns a boolean then; with the same
\* label it returns the comparison of the two timestamps, whatever the
\* durations.
C16_CompareSameTimeZoneOnly ==
  (kind = "DateTime" /\ call # None /\ call.method \in Comparisons /\ call.argument # None) =>
    LET a == object.t
        b == call.argument.t
    IN  IF object.timezone # call.argument.timezone
        THEN returned = Throws(InvalidDateTimeError)
        ELSE returned = Returns(CASE call.method = "isEqual"         -> a = b
                                  [] call.method = "isBefore"        -> a < b
                                  [] call.method = "isBeforeOrEqual" -> a <= b
                                  [] call.method = "isAfter"         -> a > b
                                  [] call.method = "isAfterOrEqual"  -> a >= b)

C16_Witness ==
  /\ kind = "DateTime" /\ call # None /\ call.method = "isBeforeOrEqual"
  /\ object.timezone = "null" /\ call.argument.timezone = "UTC"
  /\ object.t = call.argument.t
  /\ returned = Throws(InvalidDateTimeError)

\* C17: add, subtract, set, granularity and endGranularity return a DateTime
\* of the receiver's timezone and leave the receiver's timestamp, timezone,
\* duration and generators as they were at its construction; a duration
\* below 0, which no DateTime can have, is refused with InvalidDateTimeError,
\* the receiver left as it was too.
C17_TransformLeavesReceiver ==
  (kind = "DateTime" /\ call \in TransformCalls) =>
    /\ object = history.constructed
    /\ IF call.unit = "duration" /\ call.value < 0
       THEN returned = Throws(InvalidDateTimeError)
       ELSE returned = Returns(NewDateTime(returned.returns.t, object.timezone,
                         IF call.unit = "duration" THEN call.value ELSE object.duration,
                         IF call.unit = "generator" THEN <<call.value>> \o object.generators
                         ELSE <<>>))
    /\ (call.method = "add" /\ call.unit = "day") =>
         returned.returns.t = object.t + call.value * HoursInDay

C17_Witness ==
  /\ kind = "DateTime" /\ call \in TransformCalls
  /\ call = [method |-> "set", unit |-> "month", value |-> 2]
  /\ object = NewDateTime(DateUTC(2019, 1, 31, 9), "null", 1, <<"rule">>)
  /\ returned = Returns(NewDateTime(DateUTC(2019, 2, 28, 9), "null", 1, <<>>))

\* C18 as stated: every call of Dates.add, remove, set, filter or Rule.set
\* returns an object other than its receiver.
C18_AlwaysNewObject ==
  (kind = "Object" /\ call # None) => returned.returns.id # object.id

\* C18: Dates.add, remove, set, filter and Rule.set return a newly
\* constructed object, except set('timezone', value) with the timezone the
\* receiver already has, which returns the receiver itself; in every case the
\* receiver is left as it was, and a traversal of it in flight emits what it
\* would have emitted without the call.
C18_CallLeavesReceiver ==
  kind = "Object" =>
    /\ object = history.alone.this
    /\ emitted = history.emitted
    /\ call # None =>
         /\ returned.returns.class = object.class
         /\ IF call.prop = "timezone" /\ call.value = object.timezone
            THEN returned.returns.id = object.id
            ELSE returned.returns.id # object.id
         /\ (call.prop = "timezone" /\ object.class = "Dates") =>
              \A i \in 1..Len(object.adapters) :
                LET given == returned.returns.adapters[i]
                IN  /\ given.timezone = call.value
                    /\ IF call.keepLocalTime
                       THEN given.t + utcOffset(call.value)
                              = object.adapters[i].t + utcOffset(object.timezone)
                       ELSE given.t = object.adapters[i].t

C18_Witness ==
  /\ kind = "Object" /\ object.class = "Dates" /\ gen.aliased
  /\ call # None /\ call.method = "add"
  /\ history.callAt = 1
  /\ Len(emitted) = 3
  /\ lastYieldArgs.skipToDate # None
  /\ returned.returns.id # object.id
  /\ Len(returned.returns.adapters) = Len(object.adapters) + 1

\* C19: of two traversals of the same Dates object whose pulls interleave,
\* whatever their arguments and skips, each emits the instants it emits when
\* it has the object to itself, in the same order, and stands where it would
\* stand then.  Under core/generators/dates.ts the values are the same in
\* everything, their generators included; under unnamed/part_011 the
\* traversals stamp the DateTime objects they share, and only the generators
\* of a value tell whether another traversal has yielded it.
C19_TraversalsDoNotInterfere ==
  kind = "Traversals" =>
    \A i \in 1..2 :
      /\ Len(emitted[i]) = Len(history[i].emitted)
      /\ \A n \in 1..Len(emitted[i]) : emitted[i][n].t = history[i].emitted[n].t
      /\ ~StampsInPlace(object) => emitted[i] = history[i].emitted
      /\ gen[i].inner = None <=> history[i].gen.inner = None
      /\ gen[i].inner # None =>
           /\ gen[i].inner.done = history[i].gen.inner.done
           /\ gen[i].inner.pc = history[i].gen.inner.pc
           /\ gen[i].inner.dateCache = history[i].gen.inner.dateCache
           /\ ~StampsInPlace(object) =>
                gen[i].inner.value = history[i].gen.inner.value

C19_Witness ==
  /\ kind = "Traversals"
  /\ StampsInPlace(object)
  /\ Len(object.datetimes) = 2
  /\ args[1].reverse /\ ~args[2].reverse
  /\ Len(emitted[1]) = 2 /\ Len(emitted[2]) = 2
  /\ emitted[1][1].t > emitted[1][2].t
  /\ emitted[2][1].t < emitted[2][2].t
  /\ emitted[1][1].generators = <<1, 1>> /\ emitted[2][1].generators = <<1, 1>>
  /\ history[1].emitted[1].generators = <<1>> /\ history[2].emitted[1].generators = <<1>>

\* C20: normalizeOptions of ByDayOfMonth throws RuleOptionError exactly when
\* byDayOfMonth is given and the frequency is WEEKLY, or the value is not an
\* array, or an entry is 0, below -31 or above 31; a list given with another
\* frequency whose entries are all in 1..31 or -31..-1 is accepted and becomes
\* the byDayOfMonth of the normalized options.
C20_ByDayOfMonthValidation ==
  (kind = "normalizeOptions" /\ returned # None) =>
    LET given    == call.byDayOfMonth # None
        inRange  == (1..31) \cup {0 - n : n \in 1..31}
        rejected == /\ given
                    /\ \/ call.frequency = "WEEKLY"
                       \/ ~isArray(call.byDayOfMonth)
                       \/ \E i \in 1..Len(call.byDayOfMonth.array) :
                            call.byDayOfMonth.array[i] \notin inRange
    IN  /\ returned = Throws(RuleOptionError) <=> rejected
        /\ rejected => object.byDayOfMonth = None
        /\ (given /\ ~rejected) =>
             /\ returned = Returns(None)
             /\ object.byDayOfMonth = call.byDayOfMonth

C20_Witness ==
  /\ kind = "normalizeOptions"
  /\ call.frequency = "MONTHLY"
  /\ call.byDayOfMonth = Array(<<31, -31>>)
  /\ returned = Returns(None)
  /\ object.byDayOfMonth = Array(<<31, -31>>)

\* the options normalizeRuleOptions must reject
Malformed(options) ==
  \/ options.frequency \notin
       {"YEARLY", "MONTHLY", "WEEKLY", "DAILY", "HOURLY", "MINUTELY", "SECONDLY"}
  \/ /\ options.interval # None
     /\ options.interval.number <= 0
  \/ /\ options.byMonthOfYear # None
     /\ \/ ~isArray(options.byMonthOfYear)
        \/ \E i \in 1..Len(options.byMonthOfYear.array) :
             options.byMonthOfYear.array[i] \notin 1..12
  \/ /\ options.byDayOfMonth # None
     /\ \/ options.frequency = "WEEKLY"
        \/ ~isArray(options.byDayOfMonth)
        \/ \E i \in 1..Len(options.byDayOfMonth.array) :
             options.byDayOfMonth.array[i] \notin (1..31) \cup {0 - n : n \in 1..31}

\* what a pull raises when the configuration it runs on is not well-formed
ConfigurationErrors == {Throws(RuleOptionError), Throws(TypeError)}

C22_DefaultDayOfMonth ==
  (kind = "normalizeOptions" /\ returned # None /\ call.byDayOfMonth = None) =>
    /\ returned = Returns(None)
    /\ IF call.byDayOfWeek = None /\ call.frequency \in {"MONTHLY", "YEARLY"}
       THEN /\ isArray(object.byDayOfMonth)
            /\ Len(object.byDayOfMonth.array) = 1
            /\ DateUTC(get(object.start, "year"), get(object.start, "month"),
                       object.byDayOfMonth.array[1], get(object.start, "hour"))
                 = object.start.t
       ELSE object.byDayOfMonth = None

C22_Witness ==
  /\ kind = "normalizeOptions"
  /\ call = [frequency |-> "MONTHLY", byDayOfMonth |-> None, byDayOfWeek |-> None]
  /\ object.start = forkDateTime(DateTime(0), DateUTC(2020, 2, 29, 12))
  /\ returned = Returns(None)
  /\ object.byDayOfMonth = Array(<<29>>)

\* the points some base interval covers, on a scale of half units, so that
\* two intervals that neither overlap nor touch leave a point uncovered
HalfHours(t) == t \div (MillisecondsInHour \div 2)

Covered == UNION {HalfHours(inputA[i].t)..HalfHours(end(inputA[i])) : i \in 1..Len(inputA)}

\* a maximal group of base intervals that overlap or touch, from its earliest
\* start to its latest end
MaximalGroup(from, to) ==
  /\ HalfHours(from)..HalfHours(to) \subseteq Covered
  /\ HalfHours(from) - 1 \notin Covered
  /\ HalfHours(to) + 1 \notin Covered

\* C23: mergeDuration emits, in order, one interval for each maximal group of
\* base intervals that overlap or touch, from the group's earliest start to
\* its latest end, so that emitted intervals neither overlap nor touch; a
\* group longer than maxDuration is never emitted, whole or cut short: the
\* pull that comes to it throws.
C23_MergeDuration ==
  kind = "mergeDuration" =>
    LET groupsLeft == {i \in 1..Len(inputA) :
                         \A j \in 1..Len(emitted) : inputA[i].t > end(emitted[j])}
    IN  /\ \A j \in 1..Len(emitted) :
             /\ MaximalGroup(emitted[j].t, end(emitted[j]))
             /\ emitted[j].duration <= gen.maxDuration
        /\ \A j \in 1..(Len(emitted) - 1) : end(emitted[j]) < emitted[j + 1].t
        /\ \A i \in (1..Len(inputA)) \ groupsLeft :
             \E j \in 1..Len(emitted) :
               emitted[j].t <= inputA[i].t /\ end(inputA[i]) <= end(emitted[j])
        /\ returned = Returns(Null) => groupsLeft = {}
        /\ returned = Throws(MergeDurationOperatorError) =>
             \E i \in groupsLeft :
             \E to \in {Hours(h) : h \in 1..(MaxT + Len(inputA) * MaxDuration)} :
               /\ \A k \in groupsLeft : inputA[i].t <= inputA[k].t
               /\ MaximalGroup(inputA[i].t, to)
               /\ to - inputA[i].t > gen.maxDuration

C23_Witness ==
  /\ kind = "mergeDuration"
  /\ Len(inputA) = 3
  /\ inputA[1].t = Hours(1) /\ inputA[1].duration = Hours(2)
  /\ inputA[2].t = Hours(2) /\ inputA[2].duration = Hours(1)
  /\ inputA[3].t = Hours(3) /\ inputA[3].duration = Hours(1)
  /\ gen.maxDuration = Hours(3)
  /\ Len(emitted) = 1
  /\ emitted[1].t = Hours(1) /\ emitted[1].duration = Hours(3)
  /\ returned = Returns(Null)

\* the base intervals a splitDuration traversal has taken from its stream
Taken == 1..(Len(inputA) - Len(gen.stream))

\* splitFn returns a piece of this interval that is longer than maxDuration
TooLong(date) ==
  \E i \in 1..Len(SplitFn(gen.splitFn, date).returns) :
    SplitFn(gen.splitFn, date).returns[i].duration > gen.maxDuration

RECURSIVE PiecesOfFirst(_)
\* what splitFn returns for the first n base intervals, one after the other
PiecesOfFirst(n) ==
  IF n = 0 THEN <<>> ELSE PiecesOfFirst(n - 1) \o SplitFn(gen.splitFn, inputA[n]).returns

\* C24 as stated: splitFn is applied only to an interval longer than
\* maxDuration, and again to its pieces until all are within maxDuration; an
\* interval within maxDuration is emitted as it is.
C24_SplitsOnlyAboveMax ==
  kind = "splitDuration" =>
    /\ \A i \in Taken :
         inputA[i].duration <= gen.maxDuration =>
           \/ \E j \in 1..Len(emitted) : emitted[j] = inputA[i]
           \/ \E j \in 1..Len(gen.bucket) : gen.bucket[j] = inputA[i]
    /\ returned = Throws(SplitDurationOperatorError) => gen.splitFn = "whole"

\* C24 (amended): splitDuration applies splitFn once to every interval of the
\* base stream, whatever its duration, and emits the pieces returned in
\* order; a piece is not split again, and an interval is emitted as it is
\* only when splitFn returns it so.
C24_SplitsEveryIntervalOnce ==
  kind = "splitDuration" =>
    LET bad      == {i \in 1..Len(inputA) : TooLong(inputA[i])}
        sound    == IF bad = {} THEN Len(inputA)
                    ELSE (CHOOSE i \in bad : \A k \in bad : i <= k) - 1
        expected == SortDateTimes(PiecesOfFirst(sound))
    IN  /\ Len(emitted) <= Len(expected)
        /\ emitted = SubSeq(expected, 1, Len(emitted))
        /\ returned = Returns(Null) => (bad = {} /\ emitted = expected)
        /\ returned = Throws(SplitDurationOperatorError) => bad # {}

C24_Witness ==
  /\ kind = "splitDuration"
  /\ gen.splitFn = "halves" /\ gen.maxDuration = Hours(3)
  /\ Len(inputA) = 2
  /\ inputA[1].t = Hours(1) /\ inputA[1].duration = Hours(2)
  /\ inputA[2].t = Hours(2) /\ inputA[2].duration = Hours(1)
  /\ returned = Returns(Null)
  /\ Len(emitted) = 3
  /\ emitted[1].t = Hours(1) /\ emitted[1].duration = Hours(1)
  /\ emitted[2].t = Hours(2) /\ emitted[2].duration = Hours(1)
  /\ emitted[3].t = Hours(2) /\ emitted[3].duration = Hours(1)

\* C25: splitDuration never emits an interval longer than maxDuration: the
\* pull in which splitFn returns a piece longer than maxDuration throws, and
\* a pull throws for no other reason.
C25_NoPieceAboveMax ==
  kind = "splitDuration" =>
    /\ \A j \in 1..Len(emitted) : emitted[j].duration <= gen.maxDuration
    /\ \A j \in 1..Len(gen.bucket) : gen.bucket[j].duration <= gen.maxDuration
    /\ (\E i \in Taken : TooLong(inputA[i]))
         <=> returned = Throws(SplitDurationOperatorError)

C25_Witness ==
  /\ kind = "splitDuration"
  /\ gen.splitFn = "halves" /\ gen.maxDuration = Hours(1)
  /\ Len(inputA) = 2
  /\ inputA[1].duration = Hours(2) /\ inputA[2].duration = Hours(3)
  /\ inputA[2].t > inputA[1].t + Hours(1)
  /\ Len(emitted) = 2
  /\ returned = Throws(SplitDurationOperatorError)

\* C26: d.set('month', m), for m in 1..12, is in month m of the year of d, on
\* the day of d or, when month m is shorter than that, on the last day of
\* month m, at the hour of d: it never runs over into the following month.
C26_SetMonthClamps ==
  (kind = "DateTime" /\ call # None /\ call.method = "set" /\ call.unit = "month") =>
    LET result == returned.returns
        year   == get(object, "year")
        length == CASE call.value \in {4, 6, 9, 11} -> 30
                    [] call.value = 2 ->
                         IF year % 400 = 0 \/ (year % 4 = 0 /\ year % 100 # 0) THEN 29 ELSE 28
                    [] OTHER -> 31
    IN  /\ get(result, "year") = year
        /\ get(result, "month") = call.value
        /\ get(result, "day") = IF get(object, "day") < length THEN get(object, "day")
                                ELSE length
        /\ get(result, "hour") = get(object, "hour")
        /\ result.timezone = object.timezone
        /\ result.duration = object.duration

C26_Witness ==
  /\ kind = "DateTime"
  /\ object.t = DateUTC(2019, 1, 31, 9)
  /\ call # None /\ call.method = "set" /\ call.unit = "month" /\ call.value = 2
  /\ returned.returns.t = DateUTC(2019, 2, 28, 9)

\* every entry of the byDayOfWeek list is a weekday without an ordinal
PlainWeekdays(options) ==
  \A i \in 1..Len(options.byDayOfWeek) : Len(options.byDayOfWeek[i]) = 1

\* the weekdays the list names
Listed(options) == {options.byDayOfWeek[i][1] : i \in 1..Len(options.byDayOfWeek)}

\* C27: in a YEARLY, MONTHLY or DAILY rule whose byDayOfWeek holds weekdays
\* only, the by-day-of-week stage passes a candidate on a listed weekday as it
\* is, and flags any other candidate invalid, with 00:00 of the nearest later
\* day on a listed weekday as skipToDate.
C27_NextListedWeekday ==
  (kind = "ByDayOfWeekPipe" /\ call # None /\ PlainWeekdays(object)) =>
    /\ returned.date = call.date
    /\ IF get(call.date, "weekday") \in Listed(object)
       THEN ~returned.invalidDate /\ returned.skipToDate = None
       ELSE /\ returned.invalidDate
            /\ returned.skipToDate.t > call.date.t
            /\ returned.skipToDate.t - call.date.t <= 7 * HoursInDay
            /\ returned.skipToDate.t % HoursInDay = 0
            /\ get(returned.skipToDate, "weekday") \in Listed(object)
            /\ \A t \in call.date.t..returned.skipToDate.t :
                 get(forkDateTime(call.date, t), "weekday") \in Listed(object)
                   => t >= returned.skipToDate.t

C27_Witness ==
  /\ kind = "ByDayOfWeekPipe"
  /\ object.frequency = "YEARLY" /\ object.byDayOfWeek = <<<<"TU">>>>
  /\ object.byMonthOfYear = None
  /\ call # None /\ call.date.t = DateUTC(2019, 1, 16, 2)
  /\ returned.invalidDate
  /\ returned.skipToDate.t = DateUTC(2019, 1, 22, 0)

\* C28: with one ordinal entry [weekday, n] and byMonthOfYear present, in a
\* MONTHLY or YEARLY rule, the stage looks for the nth weekday in the month of
\* the candidate, listed or not: when that day is the candidate's day the
\* candidate passes, and when it is later in the month it is the skipToDate.
C28_OrdinalInOwnMonth ==
  (/\ kind = "ByDayOfWeekPipe" /\ call # None
   /\ Len(object.byDayOfWeek) = 1 /\ Len(object.byDayOfWeek[1]) = 2
   /\ object.byMonthOfYear # None) =>
    LET year   == get(call.date, "year")
        month  == get(call.date, "month")
        first  == CHOOSE d \in 1..7 :
                    get(forkDateTime(call.date, DateUTC(year, month, d, 0)), "weekday")
                      = object.byDayOfWeek[1][1]
        nth    == first + 7 * (object.byDayOfWeek[1][2] - 1)
    IN  /\ returned.date = call.date
        /\ nth = get(call.date, "day") => ~returned.invalidDate
        /\ (nth > get(call.date, "day") /\ nth <= monthLength(month, year)) =>
             /\ returned.invalidDate
             /\ returned.skipToDate.t = DateUTC(year, month, nth, 0)
        /\ (nth < get(call.date, "day") \/ nth > monthLength(month, year)) =>
             /\ returned.invalidDate
             /\ returned.skipToDate.t >= DateUTC(year, month + 1, 1, 0)

C28_Witness ==
  /\ kind = "ByDayOfWeekPipe"
  /\ object.frequency = "MONTHLY" /\ object.byDayOfWeek = <<<<"MO", 3>>>>
  /\ object.byMonthOfYear = Array(<<2>>)
  /\ call # None /\ call.date.t = DateUTC(2019, 3, 16, 2)
  /\ returned.invalidDate
  /\ returned.skipToDate.t = DateUTC(2019, 3, 18, 0)

\* C29: DateTime.fromJSON(d.toJSON()) has the timestamp, the timezone label
\* and the duration of d; a duration of 0 is left out of the JSON form and
\* read back as 0.
C29_JSONRoundTrip ==
  (kind = "JSON" /\ call # None) =>
    /\ call.method = "toJSON" =>
         ("duration" \in DOMAIN returned.returns <=> object.duration # 0)
    /\ call.method = "fromJSON" =>
         /\ returned.returns.t = object.t
         /\ returned.returns.timezone = object.timezone
         /\ returned.returns.duration = object.duration

\* C30: every date a Dates traversal has yielded held, when it was yielded, a
\* generators array with the Dates object in it exactly once, in the first
\* traversal of the object and in every later one, re-read after a
\* skipToDate or not.
C30_StampedOnce ==
  (kind \in {"unnamed/part_011", "core/generators/dates.ts"} /\ emitted # <<>>) =>
      LET yielded == emitted[Len(emitted)]
      IN  Cardinality({j \in 1..Len(yielded.generators) :
                         yielded.generators[j] = object.id}) = 1

\* C31: no date the iterator-cache Schedule._run has yielded equals one of the
\* exdates of the schedule, whatever the rrules and rdates give and in both
\* directions.
C31_NoExdateYielded ==
  kind = "iteratorCache" =>
    \A i \in 1..Len(emitted) : \A j \in 1..Len(inputB) : emitted[i].t # inputB[j].t

\* C36: the dates the iterator-cache Schedule._run has yielded are strictly
\* increasing (strictly decreasing in reverse), so that an occurrence given
\* by several rrules or by the rdates too is yielded once.
C36_StrictlyInOrder ==
  kind = "iteratorCache" =>
    \A i \in 1..(Len(emitted) - 1) :
      IF args.reverse THEN emitted[i].t > emitted[i + 1].t
      ELSE emitted[i].t < emitted[i + 1].t

C36_Witness ==
  /\ kind = "iteratorCache"
  /\ Len(inputA) = 3
  /\ \E t \in Timestamps :
       /\ \A i \in 1..3 : \E k \in 1..Len(inputA[i]) : inputA[i][k].t = t
       /\ \E i \in 1..Len(emitted) : emitted[i].t = t
  /\ Len(emitted) = 3
  /\ gen.done

\* C32: within one rule iteration a date returned by ResultPipe.run is the
\* valid candidate of that run, is not after the end bound and is strictly
\* after the date returned before it; a candidate after the end bound, and a
\* valid candidate not strictly after the date returned before it, make the
\* run return null.
C32_ReturnsInOrderUpToEnd ==
  (kind = "ResultPipe" /\ call # None) =>
    /\ ReturnedDate(returned) =>
         /\ returned.returns = call.date /\ ~call.invalidDate
         /\ object.end # None => returned.returns.t <= object.end.t
         /\ history.returnedBefore # None =>
              returned.returns.t > history.returnedBefore.t
    /\ returned # Throws(Error) =>
         /\ (object.end # None /\ call.date.t > object.end.t) => returned = Returns(Null)
         /\ (/\ ~call.invalidDate
             /\ history.returnedBefore # None
             /\ call.date.t <= history.returnedBefore.t) => returned = Returns(Null)

C32_Witness ==
  /\ kind = "ResultPipe" /\ call # None
  /\ object.end # None /\ object.end.t = MaxT
  /\ history.returnedBefore # None /\ history.returnedBefore.t = 2
  /\ ~call.invalidDate /\ call.date.t = 2
  /\ returned = Returns(Null)

\* C33: unique() drops a base value exactly when the value before it in the
\* sorted base has the same ordering key (same timestamp and same duration):
\* of two adjacent values with the same timestamp and different non-zero
\* durations both are emitted.
C33_EqualBySortKey ==
  (kind = "uniqueDuration" /\ returned = Returns(Null)) =>
    LET base == DatesList(inputA, args)
        kept == {i \in 1..Len(base) :
                   i = 1 \/ dateTimeSortComparer(base[i - 1], base[i]) # 0}
    IN  /\ Len(emitted) = Cardinality(kept)
        /\ \A i \in kept :
             emitted[Cardinality({j \in kept : j <= i})] = From("A", base[i])

\* C34: ByMonthOfYearRule.run, given a non-empty ascending byMonthOfYear,
\* reports the candidate valid iff its month is listed; otherwise it proposes
\* the smallest instant after the candidate lying in a listed month, which is
\* hour 0 of day 1 of the nearest listed month after the candidate's month, in
\* the same year when there is one, else in the next year.  (Months are
\* numbered through the years, so that every month between the candidate's
\* and the proposed one is seen not to be listed.)
C34_NextListedMonth ==
  (kind = "Rule" /\ history.iterations > 0) =>
    LET months     == {object.options.byMonthOfYear[i] :
                         i \in 1..Len(object.options.byMonthOfYear)}
        date       == history.candidate
        result     == history.byMonthOfYear
        monthNo(d) == 12 * get(d, "year") + get(d, "month") - 1
    IN  /\ result.invalidDate <=> get(date, "month") \notin months
        /\ ~result.invalidDate => result.date = date
        /\ result.invalidDate =>
             /\ result.date.t > date.t
             /\ result.date.timezone = date.timezone
             /\ get(result.date, "month") \in months
             /\ get(result.date, "day") = 1 /\ get(result.date, "hour") = 0
             /\ \A n \in (monthNo(date) + 1)..(monthNo(result.date) - 1) :
                  (n % 12) + 1 \notin months
             /\ get(result.date, "year") - get(date, "year") =
                  (IF \E m \in months : m > get(date, "month") THEN 0 ELSE 1)

C34_Witness ==
  /\ kind = "Rule" /\ history.iterations > 0
  /\ object.options.byMonthOfYear = <<2, 4>>
  /\ history.candidate = forkDateTime(DateTime(0), DateUTC(2019, 12, 31, 23))
  /\ history.byMonthOfYear = InvalidDateTime(forkDateTime(DateTime(0), DateUTC(2020, 2, 1, 0)))

\* C35: in a reverse traversal, given a candidate not flagged invalid and a
\* descending byMillisecondOfSecond, RevByMillisecondOfSecondPipe.run hands the
\* candidate on iff its millisecond is listed; otherwise it proposes the
\* largest instant before the candidate whose millisecond is listed.
C35_PreviousListedMillisecond ==
  (kind = "RevByMillisecondOfSecondPipe" /\ call # None /\ ~call.invalidDate) =>
    LET listed == {object.byMillisecondOfSecond[i] :
                     i \in 1..Len(object.byMillisecondOfSecond)}
    IN  IF call.date.t % MillisecondsInSecond \in listed
        THEN returned = NextPipeRun([date |-> call.date])
        ELSE /\ DOMAIN returned = {"nextValidDate", "args"}
             /\ returned.args = call
             /\ returned.nextValidDate.t < call.date.t
             /\ returned.nextValidDate.t % MillisecondsInSecond \in listed
             /\ \A t \in (returned.nextValidDate.t + 1)..(call.date.t - 1) :
                  t % MillisecondsInSecond \notin listed
             /\ returned.nextValidDate = forkDateTime(call.date, returned.nextValidDate.t)

C35_Witness ==
  /\ kind = "RevByMillisecondOfSecondPipe"
  /\ object.byMillisecondOfSecond = <<500, 250>>
  /\ call = PipeRunArgs(DateTime(60 * MillisecondsInSecond + 1), FALSE)
  /\ returned = NextValidDate(call, DateTime(59 * MillisecondsInSecond + 500))

\* C37 (as stated): a Dates traversal whose skip instructions never name an
\* instant before (after, in reverse) the value just emitted makes progress
\* through its finite list at every pull, so it emits no more values than the
\* list holds.
C37_SkipExhausts ==
  (kind = "dates" /\ ~wentBack) => Len(emitted) <= Len(gen.dates)

\* C37 (amended): a Dates traversal whose skip instructions all name an
\* instant strictly after (before, in reverse) the value just emitted emits no
\* more values than its list holds, and the value emitted on such a resume is
\* strictly beyond the one emitted before it.
C37_SkipAheadExhausts ==
  (kind = "dates" /\ ~wentBack /\ history = None) =>
    /\ Len(emitted) <= Len(gen.dates)
    /\ (~Done /\ Len(emitted) >= 2 /\ lastYieldArgs.skipToDate # None) =>
         StrictlyInOrder(emitted[Len(emitted) - 1], emitted[Len(emitted)])

C37_Witness ==
  /\ kind = "dates" /\ ~wentBack /\ history = None /\ ~args.reverse
  /\ Len(gen.dates) = 3 /\ Len(emitted) = 2 /\ ~Done
  /\ lastYieldArgs.skipToDate # None
  /\ lastYieldArgs.skipToDate.t > emitted[1].t
  /\ emitted[1] = From("A", gen.dates[1]) /\ emitted[2] = From("A", gen.dates[3])

\* C38: dateTimeSortComparer is a consistent ordering of DateTimes of one
\* timezone, durations of 0 included: cmp(a, b) = -cmp(b, a), and
\* cmp(a, b) <= 0 with cmp(b, c) <= 0 gives cmp(a, c) <= 0; hence a sorted
\* list is in the one order by timestamp, then duration, whatever order the
\* dates were given in.
C38_ConsistentOrdering ==
  (kind = "sort" /\ returned # None) =>
    LET given  == {inputA[i] : i \in 1..Len(inputA)}
        sorted == returned.returns
    IN  /\ \A a, b \in given : dateTimeSortComparer(a, b) = 0 - dateTimeSortComparer(b, a)
        /\ \A a, b, c \in given :
             (dateTimeSortComparer(a, b) <= 0 /\ dateTimeSortComparer(b, c) <= 0)
               => dateTimeSortComparer(a, c) <= 0
        /\ \A i \in 1..(Len(sorted) - 1) :
             \/ sorted[i].t < sorted[i + 1].t
             \/ sorted[i].t = sorted[i + 1].t /\ sorted[i].duration <= sorted[i + 1].duration

\* C39: at every next() of its consumer ScheduleBase._run pulls its
\* occurrence stream exactly once, handing it the consumer's yieldArgs as
\* received (nothing on the first pull), and emits the value the stream gave,
\* with itself put before the generators the value came with, unless the
\* stream is exhausted or `take` values have been emitted, which ends the
\* traversal: the values emitted are the values received, in order and
\* without a gap.
C39_StreamPulledOncePerNext ==
  [][(kind = "schedule" /\ ~gen.done) =>
       /\ gen'.iterator = DatesNext(gen.iterator, lastYieldArgs')
       /\ gen.pc = "start" => lastYieldArgs' = NoYieldArgs
       /\ IF gen'.iterator.done \/ (gen.count # TakeUndefined /\ Len(emitted) >= gen.count)
          THEN gen'.done /\ emitted' = emitted
          ELSE /\ ~gen'.done
               /\ Len(emitted') = Len(emitted) + 1
               /\ SubSeq(emitted', 1, Len(emitted)) = emitted
               /\ LET received == gen'.iterator.value
                      given    == emitted'[Len(emitted')]
                  IN  /\ given.t = received.t
                      /\ given.timezone = received.timezone
                      /\ given.duration = received.duration
                      /\ given.generators = <<"S">> \o received.generators]_vars

C39_Witness ==
  /\ kind = "schedule" /\ ~args.reverse /\ ~Done
  /\ Len(gen.iterator.dates) = 3 /\ Len(emitted) = 2
  /\ lastYieldArgs.skipToDate # None
  /\ emitted[1].t = gen.iterator.dates[1].t /\ emitted[2].t = gen.iterator.dates[3].t
  /\ emitted[2].generators = <<"S", "A">>
  /\ emitted[1].t < gen.iterator.dates[2].t
  /\ gen.iterator.dates[2].t < lastYieldArgs.skipToDate.t

\* C40: a VEvent emits an instant iff (some rrule and no exrule produces it,
\* or it is the VEvent's start, or it is an rdate) and it is not an exdate,
\* each such instant once and in order: the start is an occurrence unless it
\* is an exdate, even when an exrule produces it.
C40_VEventPrecedence ==
  (kind = "VEvent" /\ Done) =>
    LET In(list) == UNION {OccurrenceTimes(StartingAt(schedule.start, list[i])) :
                             i \in 1..Len(list)}
        expected == (((In(schedule.rrules) \ In(schedule.exrules))
                       \cup {schedule.start.t} \cup Instants(schedule.rdates))
                     \ Instants(schedule.exdates))
    IN  /\ Instants(emitted) = expected
        /\ \A i \in 1..(Len(emitted) - 1) : StrictlyInOrder(emitted[i], emitted[i + 1])

C40_Witness ==
  /\ kind = "VEvent" /\ Done /\ Len(emitted) = 2
  /\ Len(schedule.rrules) = 2 /\ Len(schedule.exrules) = 2
  /\ schedule.start.t \in Instants(emitted)
  /\ schedule.start.t \in OccurrenceTimes(StartingAt(schedule.start, schedule.exrules[1]))
  /\ schedule.start.t \notin Instants(schedule.rdates)
  /\ \E t \in Timestamps \ Instants(emitted) :
       /\ t \notin OccurrenceTimes(StartingAt(schedule.start, schedule.rrules[1]))
       /\ t \in OccurrenceTimes(StartingAt(schedule.start, schedule.rrules[2]))
       /\ t \notin OccurrenceTimes(StartingAt(schedule.start, schedule.exrules[1]))
       /\ t \in OccurrenceTimes(StartingAt(schedule.start, schedule.exrules[2]))

====
